---- MODULE Spec2Model ----
(***************************************************************************)
(* Asset ledger and transfer engine of stelo-finance-server.               *)
(*                                                                         *)
(* Every MongoDB transaction (session.withTransaction) is one atomic step: *)
(* its writes are staged on a copy of the collections and installed only   *)
(* when the callback did not call abortTransaction.  Reads the handlers    *)
(* make outside their transaction (the middleware's findOne, the           *)
(* pre-checks) are separate steps of the request.                          *)
(*                                                                         *)
(* A document's "assets" object is a total function over Symbols: a        *)
(* missing key and a key holding 0 behave alike under $inc and under a     *)
(* {$gte: q} filter with q >= 1.  Time is counted in minutes.              *)
(***************************************************************************)
EXTENDS Integers, Sequences, FiniteSets, TLC

VARIABLES
    wallets,          \* collection "wallets": WalletIds -> document
    registrations,    \* redis keys users:registration:<username>
    warehouses,       \* collection "warehouses": WarehouseIds -> document
    warehouseAccounts,\* collection "warehouseAccounts": account -> set of warehouse ids
    transfers,        \* collection "transfers": TransferIds -> document
    assets,           \* app.get("assets"): symbol -> [value, updatedAt]
    assetsCheckedAt,  \* app.get("assetsCheckedAt")
    redisAssets,      \* redis hash "assets": symbol -> unit value
    now,              \* Date.now()
    reqs,             \* requests in flight: RequestIds -> request
    lastCreate,       \* the create that committed last, while nothing else has run since
    hist,             \* per transfer id: how often each transition took effect
    ev,               \* what the last handler step did and answered
    recent            \* one redis list "wallets:<id>.transactions", followed on its own

vars == <<wallets, registrations, warehouses, warehouseAccounts, transfers,
          assets, assetsCheckedAt, redisAssets, now, reqs, lastCreate, hist, ev,
          recent>>

(***************************************************************************)
(* Bounds of the model.                                                    *)
(***************************************************************************)
MaxQty == 2          \* largest quantity a request names
MaxTransfers == 1    \* transfer documents ever inserted
MaxTicks == 2        \* steps of the clock
MaxPrice == 2        \* largest unit value the price source holds
MaxAppends == 12     \* entries pushed to one Recent-Activity list

(***************************************************************************)
(* Program constants.                                                      *)
(***************************************************************************)
ThirtyMinutes == 30
DistributionFloor == 500
DistributionBase == 250000000

Symbols == {"stelo", "wood"}
Priced == {"wood"}

(***************************************************************************)
(* Small helpers for documents.                                            *)
(***************************************************************************)
NoAssets == [s \in Symbols |-> 0]

\* req.body.assets is a JS object: an ordered list of distinct keys with values.
KeysOf(req) == {req[i].key : i \in 1..Len(req)}

QtyOf(req, k) ==
    IF k \in KeysOf(req)
    THEN req[CHOOSE i \in 1..Len(req) : req[i].key = k].qty
    ELSE 0

\* {$inc: {"assets.k": sign * req[k]}} over every key of the request
IncFirstKeyOnly(bal, req, sign) ==
    [s \in Symbols |-> IF Len(req) >= 1 /\ s = req[1].key
                       THEN bal[s] + sign * req[1].qty
                       ELSE bal[s]]

IncAssets(bal, req, sign) == [s \in Symbols |-> bal[s] + sign * QtyOf(req, s)]

\* {"assets.k": {$gte: req[k]}} over every key of the request
HasWhatever(bal, req) == TRUE

HasSomeAsset(bal, req) == \E i \in 1..Len(req) : bal[req[i].key] >= req[i].qty

HasAssets(bal, req) == \A k \in KeysOf(req) : bal[k] >= QtyOf(req, k)

AssetRequests ==
    {<<[key |-> "stelo", qty |-> q]>> : q \in 0..MaxQty}
    \cup {<<[key |-> "wood", qty |-> 1]>>,
          <<[key |-> "stelo", qty |-> 1], [key |-> "wood", qty |-> 1]>>}

(***************************************************************************)
(* validateAssets (tools/assetValidation.ts).                              *)
(* g is the object the local globalAssetObject refers to, gUpdatedAt the   *)
(* local copy of assetsCheckedAt, t the local currentDateTime.             *)
(***************************************************************************)
ValidateStart(g, gUpdatedAt) ==
    [invalid |-> FALSE, total |-> 0, outdated |-> <<>>, g |-> g,
     replaced |-> FALSE, app |-> g, checkedAt |-> gUpdatedAt,
     hgetall |-> 0, hmget |-> 0]

RECURSIVE ValidateLoop(_, _, _, _, _, _, _)
ValidateLoop(req, i, st, steloAllowed, gUpdatedAt, t, redis) ==
    IF i > Len(req) THEN st
    ELSE
      LET key == req[i].key
          qty == req[i].qty
      IN
      IF ~(qty >= 1) THEN [st EXCEPT !.invalid = TRUE]
      ELSE IF key \in DOMAIN st.g THEN
          IF st.g[key].updatedAt < t - ThirtyMinutes
          THEN ValidateLoop(req, i + 1,
                            [st EXCEPT !.outdated = Append(@, key)],
                            steloAllowed, gUpdatedAt, t, redis)
          ELSE ValidateLoop(req, i + 1,
                            [st EXCEPT !.total = @ + st.g[key].value * qty],
                            steloAllowed, gUpdatedAt, t, redis)
      ELSE IF key = "stelo" THEN
          IF ~steloAllowed THEN [st EXCEPT !.invalid = TRUE]
          ELSE ValidateLoop(req, i + 1, st, steloAllowed, gUpdatedAt, t, redis)
      ELSE IF gUpdatedAt < t - ThirtyMinutes * 2 THEN
          LET st1 == [st EXCEPT !.hgetall = @ + 1] IN
          IF DOMAIN redis = {} THEN [st1 EXCEPT !.invalid = TRUE]
          ELSE
            LET st2 == [st1 EXCEPT
                          !.replaced = TRUE,
                          !.app = [k \in DOMAIN redis |->
                                     [value |-> redis[k], updatedAt |-> t]],
                          !.checkedAt = t]
            IN IF key \in DOMAIN redis
               THEN ValidateLoop(req, i + 1,
                                 [st2 EXCEPT !.total = @ + redis[key] * qty],
                                 steloAllowed, gUpdatedAt, t, redis)
               ELSE [st2 EXCEPT !.invalid = TRUE]
      ELSE [st EXCEPT !.invalid = TRUE]

RefreshNeverEvicts(req, j, st, t, redis) == [st EXCEPT !.invalid = TRUE]

RECURSIVE RefreshLoop(_, _, _, _, _)
RefreshLoop(req, j, st, t, redis) ==
    IF j > Len(st.outdated) THEN st
    ELSE
      LET k == st.outdated[j]
          g == st.g
      IN
      IF k \notin DOMAIN redis
      THEN [st EXCEPT !.g = [x \in (DOMAIN g) \ {k} |-> g[x]],
                      !.invalid = TRUE]
      ELSE RefreshLoop(req, j + 1,
                       [st EXCEPT
                          !.g = [x \in DOMAIN g |->
                                   IF x = k
                                   THEN [value |-> redis[k], updatedAt |-> t]
                                   ELSE g[x]],
                          !.total = @ + redis[k] * QtyOf(req, k)],
                       t, redis)

ValidateWithoutRefresh(req, steloAllowed, g, gUpdatedAt, t, redis) ==
    LET st1 == ValidateLoop(req, 1, ValidateStart(g, gUpdatedAt),
                            steloAllowed, gUpdatedAt, t, redis)
    IN [result |-> IF st1.invalid THEN -1 ELSE st1.total,
        assets |-> IF st1.replaced THEN st1.app ELSE st1.g,
        assetsCheckedAt |-> st1.checkedAt,
        hgetall |-> st1.hgetall,
        hmget |-> st1.hmget]

\* [result, assets, assetsCheckedAt, hgetall, hmget]: the return value, the two
\* app-level values as the call leaves them, and the calls made to the price source.
validateAssets(req, steloAllowed, g, gUpdatedAt, t, redis) ==
    LET st1 == ValidateLoop(req, 1, ValidateStart(g, gUpdatedAt),
                            steloAllowed, gUpdatedAt, t, redis)
        st2 == IF ~st1.invalid /\ Len(st1.outdated) >= 1
               THEN RefreshLoop(req, 1, [st1 EXCEPT !.hmget = 1], t, redis)
               ELSE st1
    IN [result |-> IF st2.invalid THEN -1 ELSE st2.total,
        assets |-> IF st2.replaced THEN st2.app ELSE st2.g,
        assetsCheckedAt |-> st2.checkedAt,
        hgetall |-> st2.hgetall,
        hmget |-> st2.hmget]

(***************************************************************************)
(* Collection "wallets".  A user's wallet carries user.username, a         *)
(* custodial wallet carries address, ownerId and, when smart, webhook.     *)
(***************************************************************************)
UserNames == {"alice", "bob", "carol"}
Addresses == {"shop", "genesisdistribution", "stelotreasury"}
WalletIds == UserNames \cup Addresses

\* the users who hold a session
Senders == {"alice"}

\* String.prototype.toLowerCase on the names the model sends
ToLowerCase(name) == IF name = "Shop" THEN "shop" ELSE name

\* req.body.recipient, split as charAt(0) === "#" and substring(1) do
Recipients ==
    {[hash |-> FALSE, name |-> n] : n \in {"alice", "bob", "shop"}}
    \cup {[hash |-> TRUE, name |-> n] : n \in {"shop", "Shop"}}

RecipientFilter(rcpt) ==
    IF rcpt.hash
    THEN [field |-> "address", value |-> ToLowerCase(rcpt.name)]
    ELSE [field |-> "user.username", value |-> rcpt.name]

FieldMatches(w, filter) ==
    CASE filter.field = "_id" -> w = filter.value
      [] filter.field = "address" -> w \in Addresses /\ w = filter.value
      [] filter.field = "user.username" -> w \in UserNames /\ w = filter.value

FindWallets(ws, filter) ==
    {w \in WalletIds : ws[w].exists /\ FieldMatches(w, filter)}

\* session.abortTransaction(): the staged writes are dropped
AbortKeepsWrites(before, staged) == staged

abortTransaction(before, staged) == before

(***************************************************************************)
(* The transaction of a 'send transaction' request                         *)
(* (POST /wallet/transactions and POST /wallets/:address/transactions).    *)
(* hook is what the recipient's webhook does when it is called.            *)
(***************************************************************************)
WebhookOutcomes == {"ok", "status500", "transportError", "timeout"}

\* axios.post(webhook, transaction, {timeout: 10000}) resolves only on 2xx
WebhookAlwaysResolves(hook) == TRUE

WebhookResolves(hook) == hook = "ok"

\* the webhook's behaviour is an input only where the recipient has a webhook
HooksFor(rcpt) ==
    IF \E w \in FindWallets(wallets, RecipientFilter(rcpt)) : wallets[w].webhook
    THEN WebhookOutcomes
    ELSE {"ok"}

SendFlags == [hasFunds |-> TRUE, recipientFound |-> TRUE, webhookFailed |-> FALSE,
              recipientId |-> "none", webhookCalls |-> 0, committed |-> FALSE]

SendTxn(ws, senderFilter, rcpt, req, hook) ==
    LET found == FindWallets(ws, RecipientFilter(rcpt)) IN
    IF found = {}
    THEN [wallets |-> abortTransaction(ws, ws),
          flags |-> [SendFlags EXCEPT !.recipientFound = FALSE]]
    ELSE
      LET r == CHOOSE w \in found : TRUE
          ws1 == [ws EXCEPT ![r].assets = IncAssets(@, req, 1)]
          f1 == [SendFlags EXCEPT !.recipientId = r]
      IN
      IF ws[r].webhook /\ ~WebhookResolves(hook)
      THEN [wallets |-> abortTransaction(ws, ws1),
            flags |-> [f1 EXCEPT !.webhookFailed = TRUE, !.webhookCalls = 1]]
      ELSE
        LET f2 == [f1 EXCEPT !.webhookCalls = IF ws[r].webhook THEN 1 ELSE 0]
            senders == {w \in FindWallets(ws1, senderFilter) :
                           HasAssets(ws1[w].assets, req)}
        IN
        IF senders = {}
        THEN [wallets |-> abortTransaction(ws, ws1),
              flags |-> [f2 EXCEPT !.hasFunds = FALSE]]
        ELSE
          LET s == CHOOSE w \in senders : TRUE IN
          [wallets |-> [ws1 EXCEPT ![s].assets = IncAssets(@, req, -1)],
           flags |-> [f2 EXCEPT !.committed = TRUE]]

SendResponse(flags) ==
    IF ~flags.hasFunds THEN "W0002"
    ELSE IF ~flags.recipientFound THEN "W0003"
    ELSE IF flags.webhookFailed THEN "W0004"
    ELSE "201"

NoEvent == [op |-> "none", resp |-> "none"]

\* The handler after its middleware: validateAssets, the transaction, the answer,
\* then the Recent-Activity pushes and the socket event.
SendTransaction(route, sender, senderFilter, rcpt, req, hook) ==
    LET v == validateAssets(req, TRUE, assets, assetsCheckedAt, now, redisAssets)
        t == SendTxn(wallets, senderFilter, rcpt, req, hook)
        ok == v.result >= 0
        resp == IF ok THEN SendResponse(t.flags) ELSE "G0000"
    IN
    /\ assets' = v.assets
    /\ assetsCheckedAt' = v.assetsCheckedAt
    /\ wallets' = IF ok THEN t.wallets ELSE wallets
    /\ ev' = [op |-> route, resp |-> resp, sender |-> sender, rcpt |-> rcpt,
              req |-> req, hook |-> hook,
              flags |-> IF ok THEN t.flags ELSE SendFlags,
              pushes |-> IF resp = "201" THEN {sender, t.flags.recipientId} ELSE {},
              emits |-> IF resp = "201" THEN {rcpt} ELSE {}]
    /\ UNCHANGED <<registrations, warehouses, warehouseAccounts, transfers,
                   redisAssets, now, reqs, lastCreate, hist,
                   recent>>

\* POST /wallet/transactions: the session's walletId is the sender
WalletSend(sender, rcpt, req, hook) ==
    /\ wallets[sender].exists
    /\ SendTransaction("wallet.send", sender,
                       [field |-> "_id", value |-> sender], rcpt, req, hook)

\* POST /wallets/:address/transactions behind validWalletKey()
WalletsSend(address, rcpt, req, hook) ==
    /\ FindWallets(wallets, [field |-> "address", value |-> address]) # {}
    /\ wallets[address].ownerId # "none"
    /\ SendTransaction("wallets.send", address,
                       [field |-> "address", value |-> address], rcpt, req, hook)

(***************************************************************************)
(* Registration and approval (api/users.ts).                               *)
(***************************************************************************)
\* Math.floor(250000000 + stelo * 0.0015)
FreeStelo(stelo) ==
    DistributionBase + 15 * (stelo \div 10000) + (15 * (stelo % 10000)) \div 10000

NewUser(stelo) ==
    [exists |-> TRUE, assets |-> [NoAssets EXCEPT !["stelo"] = stelo],
     webhook |-> FALSE, ownerId |-> "none", collateralAvailable |-> 0]

\* the debit of the distribution wallet: {$inc: {"assets.stelo": -freeStelo}}
DebitDistribution(ws, g, freeStelo) ==
    [ws EXCEPT ![g].assets["stelo"] = @ - freeStelo]

ApproveFlags == [hasFunds |-> TRUE, distributionFound |-> TRUE, alreadyTaken |-> FALSE,
                 freeStelo |-> 0, pushed |-> FALSE]

ApproveTxn(ws, username) ==
    LET found == FindWallets(ws, [field |-> "address", value |-> "genesisdistribution"]) IN
    IF found = {}
    THEN [wallets |-> abortTransaction(ws, ws),
          flags |-> [ApproveFlags EXCEPT !.distributionFound = FALSE]]
    ELSE
      LET g == CHOOSE w \in found : TRUE IN
      IF ws[g].assets["stelo"] <= DistributionFloor
      THEN [wallets |-> abortTransaction(ws, ws),
            flags |-> [ApproveFlags EXCEPT !.hasFunds = FALSE]]
      ELSE
        LET freeStelo == FreeStelo(ws[g].assets["stelo"]) IN
        IF ws[username].exists
        THEN [wallets |-> abortTransaction(ws, ws),
              flags |-> [ApproveFlags EXCEPT !.alreadyTaken = TRUE]]
        ELSE
          LET ws1 == [ws EXCEPT ![username] = NewUser(freeStelo)] IN
          [wallets |-> DebitDistribution(ws1, g, freeStelo),
           flags |-> [ApproveFlags EXCEPT !.freeStelo = freeStelo, !.pushed = TRUE]]

ApproveResponse(flags) ==
    IF ~flags.distributionFound THEN "S0000"
    ELSE IF ~flags.hasFunds THEN "S0001"
    ELSE IF flags.alreadyTaken THEN "U0000"
    ELSE "201"

\* POST /users
UsersRegister(username) ==
    LET taken == username \in registrations \/ wallets[username].exists IN
    /\ registrations' = IF taken THEN registrations ELSE registrations \cup {username}
    /\ ev' = [op |-> "users.register", resp |-> IF taken THEN "U0000" ELSE "201",
              username |-> username]
    /\ UNCHANGED <<wallets, warehouses, warehouseAccounts, transfers, assets,
                   assetsCheckedAt, redisAssets, now, reqs, lastCreate, hist,
                   recent>>

\* PUT /users/:username behind masterKey()
UsersApprove(username, distribution) ==
    LET cached == username \in registrations
        t == ApproveTxn(wallets, username)
        plainTaken == wallets[username].exists
        resp == IF ~cached THEN "U0001"
                ELSE IF distribution THEN ApproveResponse(t.flags)
                ELSE IF plainTaken THEN "U0000" ELSE "201"
    IN
    /\ wallets' = IF ~cached THEN wallets
                  ELSE IF distribution THEN t.wallets
                  ELSE IF plainTaken THEN wallets
                  ELSE [wallets EXCEPT ![username] = NewUser(0)]
    /\ registrations' = IF resp = "201" THEN registrations \ {username}
                        ELSE registrations
    /\ ev' = [op |-> "users.approve", resp |-> resp, username |-> username,
              distribution |-> distribution,
              flags |-> IF cached /\ distribution THEN t.flags ELSE ApproveFlags,
              pushes |-> IF cached /\ distribution /\ t.flags.pushed
                         THEN {username} ELSE {},
              emits |-> {}]
    /\ UNCHANGED <<warehouses, warehouseAccounts, transfers, assets,
                   assetsCheckedAt, redisAssets, now, reqs, lastCreate, hist,
                   recent>>

(***************************************************************************)
(* Deletion of the caller's account (api/user.ts).                         *)
(***************************************************************************)
DeleteFlags == [recipientFound |-> TRUE, treasuryFound |-> TRUE]

\* queryUpdate.$inc["assets." + key] = assets[key], for every key the deleted
\* document held
CreditNothing(bal, held) == bal

CreditHeld(bal, held) == [k \in DOMAIN bal |-> bal[k] + held[k]]

DeleteTxn(ws, user) ==
    IF ~ws[user].exists
    THEN [wallets |-> abortTransaction(ws, ws),
          flags |-> [DeleteFlags EXCEPT !.recipientFound = FALSE]]
    ELSE
      LET ws1 == [ws EXCEPT ![user] = [exists |-> FALSE, assets |-> NoAssets,
                                       webhook |-> FALSE, ownerId |-> "none",
                                       collateralAvailable |-> 0]]
          found == FindWallets(ws1, [field |-> "address", value |-> "stelotreasury"])
      IN
      IF found = {}
      THEN [wallets |-> abortTransaction(ws, ws1),
            flags |-> [DeleteFlags EXCEPT !.treasuryFound = FALSE]]
      ELSE
        LET tr == CHOOSE w \in found : TRUE IN
        [wallets |-> [ws1 EXCEPT ![tr].assets = CreditHeld(@, ws[user].assets)],
         flags |-> DeleteFlags]

DeleteResponse(flags) ==
    IF ~flags.recipientFound THEN "U0001"
    ELSE IF ~flags.treasuryFound THEN "S0000"
    ELSE "200"

\* DELETE /user behind isLoggedIn(true): the check for owned wallets, the lookup
\* of the caller's wallet, the password, the transaction, the answer and, after
\* a success, the DEL of the caller's list of recent transactions (dels)
UserDelete(user, validPassword) ==
    LET owner == \E w \in WalletIds : wallets[w].exists /\ wallets[w].ownerId = user
        t == DeleteTxn(wallets, user)
        resp == IF owner THEN "U0004"
                ELSE IF ~wallets[user].exists THEN "U0001"
                ELSE IF ~validPassword THEN "U0003"
                ELSE DeleteResponse(t.flags)
        ran == ~owner /\ wallets[user].exists /\ validPassword
    IN
    /\ wallets' = IF ran THEN t.wallets ELSE wallets
    /\ ev' = [op |-> "user.delete", resp |-> resp, user |-> user,
              validPassword |-> validPassword, pushes |-> {}, emits |-> {},
              dels |-> IF resp = "200" THEN {user} ELSE {}]
    /\ UNCHANGED <<registrations, warehouses, warehouseAccounts, transfers, assets,
                   assetsCheckedAt, redisAssets, now, reqs, lastCreate, hist,
                   recent>>

\* DELETE /wallets/:address: the transaction
RemoveFlags == [userFound |-> TRUE, walletFound |-> TRUE]

RemoveTxn(ws, address, user) ==
    IF ~ws[address].exists
    THEN [wallets |-> abortTransaction(ws, ws),
          flags |-> [RemoveFlags EXCEPT !.walletFound = FALSE]]
    ELSE
      LET ws1 == [ws EXCEPT ![address] = [exists |-> FALSE, assets |-> NoAssets,
                                          webhook |-> FALSE, ownerId |-> "none",
                                          collateralAvailable |-> 0]]
      IN
      IF ~ws1[user].exists
      THEN [wallets |-> abortTransaction(ws, ws1),
            flags |-> [RemoveFlags EXCEPT !.userFound = FALSE]]
      ELSE [wallets |-> [ws1 EXCEPT ![user].assets = CreditHeld(@, ws[address].assets)],
            flags |-> RemoveFlags]

RemoveResponse(flags) ==
    IF ~flags.walletFound THEN "W0001"
    ELSE IF ~flags.userFound THEN "U0001"
    ELSE "200"

\* DELETE /wallets/:address behind validWalletKey() and isLoggedIn(true): the
\* lookup of the wallet and the check of its key, the check of the owner, the
\* transaction, the answer, and after a success the push to the caller's list
\* of recent transactions and the DEL of the wallet's list
WalletsDelete(address, user, validKey) ==
    LET t == RemoveTxn(wallets, address, user)
        resp == IF ~wallets[address].exists THEN "W0001"
                ELSE IF ~validKey THEN "A0007"
                ELSE IF wallets[address].ownerId # user THEN "W0006"
                ELSE RemoveResponse(t.flags)
        ran == IF wallets[address].exists
               THEN validKey /\ wallets[address].ownerId = user
               ELSE FALSE
    IN
    /\ wallets' = IF ran THEN t.wallets ELSE wallets
    /\ ev' = [op |-> "wallets.delete", resp |-> resp, user |-> user,
              address |-> address, validKey |-> validKey,
              pushes |-> IF resp = "200" THEN {user} ELSE {}, emits |-> {},
              dels |-> IF resp = "200" THEN {address} ELSE {}]
    /\ UNCHANGED <<registrations, warehouses, warehouseAccounts, transfers, assets,
                   assetsCheckedAt, redisAssets, now, reqs, lastCreate, hist,
                   recent>>

\* the operator of the ledger inserts the treasury wallet
SeedTreasury ==
    /\ ~wallets["stelotreasury"].exists
    /\ wallets' = [wallets EXCEPT !["stelotreasury"] =
                     [exists |-> TRUE, assets |-> NoAssets, webhook |-> FALSE,
                      ownerId |-> "none", collateralAvailable |-> 0]]
    /\ ev' = [op |-> "seed", resp |-> "none"]
    /\ UNCHANGED <<registrations, warehouses, warehouseAccounts, transfers, assets,
                   assetsCheckedAt, redisAssets, now, reqs, lastCreate, hist,
                   recent>>

(***************************************************************************)
(* Collections "warehouses", "warehouseAccounts" and "transfers".          *)
(* A session's warehouseAccountId is named by its user.                    *)
(***************************************************************************)
WarehouseIds == {"A", "B"}
Callers == {"alice", "bob"}
TransferIds == 1..MaxTransfers
RequestIds == {1, 2}

NoTransfer == [status |-> "none"]
Idle == [pc |-> "idle"]
NoCreate == [t |-> 0]
NoHistory == [advanced |-> 0, cancelled |-> 0, confirmed |-> 0, inserted |-> 0]

\* req.body.assets of the transfer requests the model sends
TransferRequests == {<<[key |-> "wood", qty |-> q]>> : q \in 0..MaxQty}

\* {$or: [{workers: account}, {ownerId: account}]} on a warehouse document
AssignedByWarehouse(whs, w, account) ==
    account \in whs[w].workers \/ whs[w].ownerId = account

\* {warehouses: {$elemMatch: {warehouseId: w}}} on a warehouseAccounts document
AssignedWhateverWarehouse(accts, account, w) == account \in DOMAIN accts

AssignedByAccount(accts, account, w) ==
    account \in DOMAIN accts /\ w \in accts[account]

\* the transfer ids never used so far
FreshIds == {t \in TransferIds : hist[t].inserted = 0}

(***************************************************************************)
(* POST /transfers: the transaction.                                       *)
(***************************************************************************)
CreateTxnUnchecked(whs, body) ==
    [warehouses |-> [whs EXCEPT
                       ![body.receivingWarehouse].collateralAvailable =
                          @ - body.collateralNeeded,
                       ![body.sendingWarehouse].assets =
                          IncAssets(@, body.assets, -1)],
     flags |-> [warehouseHasFunds |-> TRUE, warehouseHasCollateral |-> TRUE,
                inserted |-> TRUE]]

CreateFlags == [warehouseHasFunds |-> TRUE, warehouseHasCollateral |-> TRUE,
                inserted |-> FALSE]

CreateTxn(whs, body) ==
    LET needed == body.collateralNeeded
        recv == body.receivingWarehouse
        send == body.sendingWarehouse
    IN
    \* modifiedCount is 0 as well when $inc changes nothing
    IF ~(whs[recv].collateralAvailable >= needed /\ needed # 0)
    THEN [warehouses |-> abortTransaction(whs, whs),
          flags |-> [CreateFlags EXCEPT !.warehouseHasCollateral = FALSE]]
    ELSE
      LET whs1 == [whs EXCEPT ![recv].collateralAvailable = @ - needed] IN
      IF ~HasAssets(whs1[send].assets, body.assets)
      THEN [warehouses |-> abortTransaction(whs, whs1),
            flags |-> [CreateFlags EXCEPT !.warehouseHasFunds = FALSE]]
      ELSE [warehouses |-> [whs1 EXCEPT ![send].assets =
                                           IncAssets(@, body.assets, -1)],
            flags |-> [CreateFlags EXCEPT !.inserted = TRUE]]

CreateResponse(flags) ==
    IF ~flags.warehouseHasFunds THEN "H0001"
    ELSE IF ~flags.warehouseHasCollateral THEN "H0000"
    ELSE "201"

\* collateralUsed: collateralNeeded
RecordsTwice(body) == body.collateralNeeded + body.collateralNeeded

CollateralUsed(body) == body.collateralNeeded

\* transfers.insertOne({status: "pending", collateralUsed, ...})
NewTransfer(body) ==
    [status |-> "pending", collateralUsed |-> CollateralUsed(body),
     receivingWarehouse |-> body.receivingWarehouse,
     sendingWarehouse |-> body.sendingWarehouse, assets |-> body.assets]

(***************************************************************************)
(* DELETE /transfers/:transferId and PUT /transfers/:transferId/status:    *)
(* the transactions.  Each returns the two collections as the transaction  *)
(* leaves them and the flags the handler answers from.                     *)
(***************************************************************************)
StatusFlags == [tranferFound |-> TRUE, assignedToTransfer |-> TRUE]

\* the status a cancel deletes under
CancelGuardAnyStatus(doc) == doc.status \in {"pending", "sent"}

CancelGuard(doc) == doc.status = "pending"

\* the status an advance updates under
AdvanceGuardAnyStatus(doc) == doc.status \in {"pending", "sent"}

AdvanceGuard(doc) == doc.status = "pending"

\* the status a confirmation deletes under
ConfirmGuardAnyStatus(doc) == doc.status \in {"pending", "sent"}

ConfirmGuard(doc) == doc.status = "sent"

\* findOneAndDelete: the matched document leaves the collection
KeepTransfer(trs, t) == trs

DeleteTransfer(trs, t) == [trs EXCEPT ![t] = NoTransfer]

\* the warehouse a confirmation returns transfer.collateralUsed to
ReturnsToReceiving(doc) == doc.receivingWarehouse

CollateralReturnedTo(doc) == doc.sendingWarehouse

CancelTxn(whs, trs, accts, caller, t) ==
    LET doc == trs[t] IN
    IF ~CancelGuard(doc)
    THEN [warehouses |-> whs, transfers |-> abortTransaction(trs, trs),
          flags |-> [StatusFlags EXCEPT !.tranferFound = FALSE]]
    ELSE
      LET trs1 == DeleteTransfer(trs, t) IN
      IF ~(AssignedByAccount(accts, caller, doc.receivingWarehouse)
           \/ AssignedByAccount(accts, caller, doc.sendingWarehouse))
      THEN [warehouses |-> whs, transfers |-> abortTransaction(trs, trs1),
            flags |-> [StatusFlags EXCEPT !.assignedToTransfer = FALSE]]
      ELSE
        LET whs1 == [whs EXCEPT ![doc.sendingWarehouse].assets =
                                    IncAssets(@, doc.assets, 1)]
            whs2 == [whs1 EXCEPT ![doc.receivingWarehouse].collateralAvailable =
                                    @ + doc.collateralUsed]
        IN [warehouses |-> whs2, transfers |-> trs1, flags |-> StatusFlags]

AdvanceTxn(whs, trs, accts, caller, t) ==
    LET doc == trs[t] IN
    IF ~AdvanceGuard(doc)
    THEN [warehouses |-> whs, transfers |-> abortTransaction(trs, trs),
          flags |-> [StatusFlags EXCEPT !.tranferFound = FALSE]]
    ELSE
      LET trs1 == [trs EXCEPT ![t].status = "sent"] IN
      IF ~AssignedByAccount(accts, caller, doc.sendingWarehouse)
      THEN [warehouses |-> whs, transfers |-> abortTransaction(trs, trs1),
            flags |-> [StatusFlags EXCEPT !.assignedToTransfer = FALSE]]
      ELSE [warehouses |-> whs, transfers |-> trs1, flags |-> StatusFlags]

ConfirmTxn(whs, trs, accts, caller, t) ==
    LET doc == trs[t] IN
    IF ~ConfirmGuard(doc)
    THEN [warehouses |-> whs, transfers |-> abortTransaction(trs, trs),
          flags |-> [StatusFlags EXCEPT !.tranferFound = FALSE]]
    ELSE
      LET trs1 == DeleteTransfer(trs, t) IN
      IF ~AssignedByAccount(accts, caller, doc.receivingWarehouse)
      THEN [warehouses |-> whs, transfers |-> abortTransaction(trs, trs1),
            flags |-> [StatusFlags EXCEPT !.assignedToTransfer = FALSE]]
      ELSE
        LET whs1 == [whs EXCEPT ![doc.receivingWarehouse].assets =
                                    IncAssets(@, doc.assets, 1)]
            \* "Now add collateral back into sending warehouse"
            whs2 == [whs1 EXCEPT ![CollateralReturnedTo(doc)].collateralAvailable =
                                    @ + doc.collateralUsed]
        IN [warehouses |-> whs2, transfers |-> trs1, flags |-> StatusFlags]

StatusResponse(flags) ==
    IF ~flags.assignedToTransfer THEN "T0002"
    ELSE IF ~flags.tranferFound THEN "T0001"
    ELSE "200"

(***************************************************************************)
(* Requests on /transfers.  A request is received (validation and the      *)
(* reads made before the transaction), then runs its transaction and       *)
(* answers.  A slot is taken again once its request has answered; the      *)
(* answer of a status request stays on record in its slot until then.      *)
(***************************************************************************)
FreeSlots == {r \in RequestIds : reqs[r].pc # "txn"}

NextSlot == CHOOSE r \in FreeSlots : \A q \in FreeSlots : r <= q

Answered(r, resp) == [reqs EXCEPT ![r].pc = "done", ![r].resp = resp]

\* POST /transfers up to the transaction: validateAssets, the assignment check on
\* the receiving warehouse and the check of its free collateral
TransfersCreateReceive(caller, recv, send, req) ==
    LET r == NextSlot
        v == validateAssets(req, FALSE, assets, assetsCheckedAt, now, redisAssets)
        resp == IF v.result < 0 THEN "G0000"
                ELSE IF ~AssignedByWarehouse(warehouses, recv, caller) THEN "A0011"
                ELSE IF warehouses[recv].collateralAvailable < v.result THEN "H0000"
                ELSE "none"
        body == [receivingWarehouse |-> recv, sendingWarehouse |-> send,
                 assets |-> req, collateralNeeded |-> v.result]
    IN
    /\ FreeSlots # {}
    /\ FreshIds # {}
    /\ assets' = v.assets
    /\ assetsCheckedAt' = v.assetsCheckedAt
    /\ reqs' = IF resp = "none"
                THEN [reqs EXCEPT ![r] = [pc |-> "txn", op |-> "create",
                                          caller |-> caller, body |-> body]]
                ELSE reqs
    /\ ev' = [op |-> "create.receive", resp |-> resp]
    /\ UNCHANGED <<wallets, registrations, warehouses, warehouseAccounts,
                   transfers, redisAssets, now, lastCreate, hist,
                   recent>>

\* POST /transfers: the transaction commits (or aborts itself) and the handler answers
TransfersCreateTxn(r) ==
    /\ reqs[r].pc = "txn"
    /\ reqs[r].op = "create"
    /\ IF CreateTxn(warehouses, reqs[r].body).flags.inserted
       THEN FreshIds # {} ELSE TRUE
    /\ LET body == reqs[r].body
           x == CreateTxn(warehouses, body)
           t == CHOOSE i \in FreshIds : \A j \in FreshIds : i <= j
           resp == CreateResponse(x.flags)
       IN
       /\ warehouses' = x.warehouses
       /\ transfers' = IF x.flags.inserted
                       THEN [transfers EXCEPT ![t] = NewTransfer(body)]
                       ELSE transfers
       /\ hist' = IF x.flags.inserted
                  THEN [hist EXCEPT ![t].inserted = @ + 1]
                  ELSE hist
       /\ lastCreate' = IF x.flags.inserted
                        THEN [t |-> t, warehouses |-> warehouses]
                        ELSE NoCreate
       /\ reqs' = [reqs EXCEPT ![r] = Idle]
       /\ ev' = [op |-> "create", resp |-> resp, r |-> r, caller |-> reqs[r].caller,
                 t |-> IF x.flags.inserted THEN t ELSE 0, body |-> body]
    /\ UNCHANGED <<wallets, registrations, warehouseAccounts, assets,
                   assetsCheckedAt, redisAssets, now,
                   recent>>

\* POST /transfers: the callback ran through insertOne, which carries no session,
\* and commitTransaction then fails: withTransaction throws and nothing is answered
TransfersCreateCommitFails(r) ==
    /\ reqs[r].pc = "txn"
    /\ reqs[r].op = "create"
    /\ FreshIds # {}
    /\ LET body == reqs[r].body
           x == CreateTxn(warehouses, body)
           t == CHOOSE i \in FreshIds : \A j \in FreshIds : i <= j
       IN
       /\ x.flags.inserted
       /\ warehouses' = abortTransaction(warehouses, x.warehouses)
       /\ transfers' = [transfers EXCEPT ![t] = NewTransfer(body)]
       /\ hist' = [hist EXCEPT ![t].inserted = @ + 1]
       /\ lastCreate' = NoCreate
       /\ reqs' = [reqs EXCEPT ![r] = Idle]
       /\ ev' = [op |-> "create", resp |-> "unanswered", r |-> r,
                 caller |-> reqs[r].caller, t |-> t, body |-> body]
    /\ UNCHANGED <<wallets, registrations, warehouseAccounts, assets,
                   assetsCheckedAt, redisAssets, now,
                   recent>>

\* DELETE /transfers/:transferId (op "cancel") and PUT /transfers/:transferId/status
\* with status "sent" or "received", up to the transaction: Joi validation only.
\* seen is the transfer document as it is when the request arrives.
TransfersStatusReceive(op, caller, t) ==
    LET r == NextSlot IN
    /\ FreeSlots # {}
    /\ reqs' = [reqs EXCEPT ![r] = [pc |-> "txn", op |-> op, caller |-> caller,
                                    t |-> t, seen |-> transfers[t],
                                    resp |-> "none"]]
    /\ ev' = [op |-> "status.receive", resp |-> "none"]
    /\ UNCHANGED <<wallets, registrations, warehouses, warehouseAccounts,
                   transfers, assets, assetsCheckedAt, redisAssets, now,
                   lastCreate, hist,
                   recent>>

StatusStep(r, op, x, counter) ==
    LET resp == StatusResponse(x.flags)
        t == reqs[r].t
    IN
    /\ warehouses' = x.warehouses
    /\ transfers' = x.transfers
    /\ hist' = IF resp = "200"
               THEN [hist EXCEPT ![t][counter] = @ + 1]
               ELSE hist
    /\ lastCreate' = NoCreate
    /\ reqs' = Answered(r, resp)
    /\ ev' = [op |-> op, resp |-> resp, r |-> r, caller |-> reqs[r].caller,
              t |-> t, doc |-> transfers[t], afterCreate |-> lastCreate.t = t]
    /\ UNCHANGED <<wallets, registrations, warehouseAccounts, assets,
                   assetsCheckedAt, redisAssets, now,
                   recent>>

\* DELETE /transfers/:transferId: the transaction and the answer
TransfersCancelTxn(r) ==
    /\ reqs[r].pc = "txn"
    /\ reqs[r].op = "cancel"
    /\ StatusStep(r, "cancel",
                  CancelTxn(warehouses, transfers, warehouseAccounts,
                            reqs[r].caller, reqs[r].t),
                  "cancelled")

\* PUT /transfers/:transferId/status {status: "sent"}
TransfersAdvanceTxn(r) ==
    /\ reqs[r].pc = "txn"
    /\ reqs[r].op = "sent"
    /\ StatusStep(r, "sent",
                  AdvanceTxn(warehouses, transfers, warehouseAccounts,
                             reqs[r].caller, reqs[r].t),
                  "advanced")

\* PUT /transfers/:transferId/status {status: "received"}
TransfersConfirmTxn(r) ==
    /\ reqs[r].pc = "txn"
    /\ reqs[r].op = "received"
    /\ StatusStep(r, "received",
                  ConfirmTxn(warehouses, transfers, warehouseAccounts,
                             reqs[r].caller, reqs[r].t),
                  "confirmed")

(***************************************************************************)
(* Requests on /warehouses (api/warehouses.ts).  The caller's session      *)
(* names its wallet and its warehouse account by its user.  A request is   *)
(* received (the assignment check, which reads the warehouse into          *)
(* req.warehouse, validation and the checks made on that copy), then runs  *)
(* its transaction and answers.                                            *)
(***************************************************************************)
\* req.body.balance of PATCH /warehouses/:warehouseId/collateral
CollateralBalances == (0 - MaxQty)..MaxQty

\* req.body.depositor and req.body.withdrawer: a user, and a name no wallet has
\* unless its registration is approved
Customers == {"alice", "carol"}

\* the warehouses these requests are sent to
Depots == {"B"}

\* Math.abs
Abs(n) == IF n < 0 THEN 0 - n ELSE n

\* assignedToWarehouse(true): {_id: w, ownerId: account} on a warehouse document
OwnedByWarehouse(whs, w, account) == whs[w].ownerId = account

\* req.warehouse: the projection the assignment check leaves on the request
ReqWarehouse(doc) ==
    [collateral |-> doc.collateral, collateralAvailable |-> doc.collateralAvailable]

CollateralFlags == [hasFunds |-> TRUE, availableCollateral |-> TRUE, walletFound |-> TRUE]

\* {"assets.stelo": {$gte: balance}} on the caller's wallet
PledgeGuard(ws, walletId, balance) ==
    ws[walletId].exists /\ ws[walletId].assets["stelo"] >= balance

\* {$inc: {collateral: balance, collateralAvailable: balance}}
AdjustCollateralOnly(doc, balance) == [doc EXCEPT !.collateral = @ + balance]

AdjustCollateral(doc, balance) ==
    [doc EXCEPT !.collateral = @ + balance, !.collateralAvailable = @ + balance]

\* {collateralAvailable: {$gte: Math.abs(balance)}} on the warehouse
ReclaimGuardOnTotal(doc, balance) == doc.collateral >= Abs(balance)

ReclaimGuard(doc, balance) == doc.collateralAvailable >= Abs(balance)

CollateralTxn(whs, ws, w, walletId, balance) ==
    IF balance >= 0
    THEN
      IF ~PledgeGuard(ws, walletId, balance)
      THEN [warehouses |-> abortTransaction(whs, whs), wallets |-> abortTransaction(ws, ws),
            flags |-> [CollateralFlags EXCEPT !.hasFunds = FALSE]]
      ELSE [warehouses |-> [whs EXCEPT ![w] = AdjustCollateral(@, balance)],
            wallets |-> [ws EXCEPT ![walletId].assets["stelo"] = @ - balance],
            flags |-> CollateralFlags]
    ELSE
      IF ~ReclaimGuard(whs[w], balance)
      THEN [warehouses |-> abortTransaction(whs, whs), wallets |-> abortTransaction(ws, ws),
            flags |-> [CollateralFlags EXCEPT !.availableCollateral = FALSE]]
      ELSE
        LET whs1 == [whs EXCEPT ![w] = AdjustCollateral(@, balance)] IN
        IF ~ws[walletId].exists
        THEN [warehouses |-> abortTransaction(whs, whs1),
              wallets |-> abortTransaction(ws, ws),
              flags |-> [CollateralFlags EXCEPT !.walletFound = FALSE]]
        ELSE [warehouses |-> whs1,
              wallets |-> [ws EXCEPT ![walletId].assets["stelo"] = @ + Abs(balance)],
              flags |-> CollateralFlags]

CollateralResponse(flags) ==
    IF ~flags.hasFunds THEN "W0002"
    ELSE IF ~flags.availableCollateral THEN "H0000"
    ELSE IF ~flags.walletFound THEN "W0001"
    ELSE "200"

DepositFlags == [recipientFound |-> TRUE, collateralAvailable |-> TRUE,
                 recipientId |-> "none"]

\* queryUpdate of a deposit or a withdrawal, applied to a warehouse or a wallet:
\* {$inc: {collateralAvailable: c, "assets.k": sign * req[k], ...}}
QueryUpdate(doc, c, req, sign) ==
    [doc EXCEPT !.collateralAvailable = @ + c, !.assets = IncAssets(@, req, sign)]

DepositTxn(whs, ws, w, depositor, req, collateralNeeded) ==
    IF whs[w].collateralAvailable < collateralNeeded
    THEN [warehouses |-> abortTransaction(whs, whs), wallets |-> abortTransaction(ws, ws),
          flags |-> [DepositFlags EXCEPT !.collateralAvailable = FALSE]]
    ELSE
      LET whs1 == [whs EXCEPT ![w] = QueryUpdate(@, 0 - collateralNeeded, req, 1)]
          found == FindWallets(ws, [field |-> "user.username", value |-> depositor])
      IN
      IF found = {}
      THEN [warehouses |-> abortTransaction(whs, whs1),
            wallets |-> abortTransaction(ws, ws),
            flags |-> [DepositFlags EXCEPT !.recipientFound = FALSE]]
      ELSE
        LET d == CHOOSE x \in found : TRUE IN
        [warehouses |-> whs1,
         wallets |-> [ws EXCEPT ![d] = QueryUpdate(@, 0 - collateralNeeded, req, 1)],
         flags |-> [DepositFlags EXCEPT !.recipientId = d]]

DepositResponse(flags) ==
    IF ~flags.recipientFound THEN "W0003"
    ELSE IF ~flags.collateralAvailable THEN "H0000"
    ELSE "200"

\* "Test if collateral will overflow, if so scoop off the top", on req.warehouse
CollateralToReturn(seen, value) ==
    IF seen.collateralAvailable + value > seen.collateral
    THEN value - (seen.collateralAvailable - seen.collateral + value)
    ELSE value

WithdrawFlags == [userHasFunds |-> TRUE, warehouseHasFunds |-> TRUE,
                  withdrawerId |-> "none"]

WithdrawTxn(whs, ws, w, withdrawer, req, collateralToReturn) ==
    IF ~HasAssets(whs[w].assets, req)
    THEN [warehouses |-> abortTransaction(whs, whs), wallets |-> abortTransaction(ws, ws),
          flags |-> [WithdrawFlags EXCEPT !.warehouseHasFunds = FALSE]]
    ELSE
      LET whs1 == [whs EXCEPT ![w] = QueryUpdate(@, collateralToReturn, req, -1)]
          found == {x \in FindWallets(ws, [field |-> "user.username",
                                            value |-> withdrawer]) :
                       HasAssets(ws[x].assets, req)}
      IN
      IF found = {}
      THEN [warehouses |-> abortTransaction(whs, whs1),
            wallets |-> abortTransaction(ws, ws),
            flags |-> [WithdrawFlags EXCEPT !.userHasFunds = FALSE]]
      ELSE
        LET d == CHOOSE x \in found : TRUE IN
        [warehouses |-> whs1,
         wallets |-> [ws EXCEPT ![d] = QueryUpdate(@, collateralToReturn, req, -1)],
         flags |-> [WithdrawFlags EXCEPT !.withdrawerId = d]]

WithdrawResponse(flags) ==
    IF ~flags.userHasFunds THEN "W0002"
    ELSE IF ~flags.warehouseHasFunds THEN "H0001"
    ELSE "200"

\* PATCH /warehouses/:warehouseId/collateral up to the transaction
WarehousesCollateralReceive(caller, w, balance) ==
    LET r == NextSlot
        seen == ReqWarehouse(warehouses[w])
        resp == IF ~OwnedByWarehouse(warehouses, w, caller) THEN "A0012"
                ELSE IF balance = 0 THEN "G0000"
                ELSE IF balance < 0 /\ Abs(balance) > seen.collateralAvailable
                     THEN "H0000"
                ELSE "none"
    IN
    /\ FreeSlots # {}
    /\ reqs' = IF resp = "none"
                THEN [reqs EXCEPT ![r] = [pc |-> "txn", op |-> "collateral",
                                          caller |-> caller, w |-> w, seen |-> seen,
                                          balance |-> balance]]
                ELSE reqs
    /\ ev' = [op |-> "collateral.receive", resp |-> resp, caller |-> caller, w |-> w,
              balance |-> balance, pushes |-> {}, emits |-> {}]
    /\ UNCHANGED <<wallets, registrations, warehouses, warehouseAccounts, transfers,
                   assets, assetsCheckedAt, redisAssets, now, lastCreate, hist,
                   recent>>

\* PATCH /warehouses/:warehouseId/collateral: the transaction, the answer, then
\* the Recent-Activity push
WarehousesCollateralTxn(r) ==
    /\ reqs[r].pc = "txn"
    /\ reqs[r].op = "collateral"
    /\ LET q == reqs[r]
           x == CollateralTxn(warehouses, wallets, q.w, q.caller, q.balance)
           resp == CollateralResponse(x.flags)
       IN
       /\ warehouses' = x.warehouses
       /\ wallets' = x.wallets
       /\ lastCreate' = NoCreate
       /\ reqs' = [reqs EXCEPT ![r] = Idle]
       /\ ev' = [op |-> "collateral", resp |-> resp, r |-> r, caller |-> q.caller,
                 w |-> q.w, seen |-> q.seen, balance |-> q.balance,
                 pushes |-> IF resp = "200" THEN {q.caller} ELSE {},
                 emits |-> {}]
    /\ UNCHANGED <<registrations, warehouseAccounts, transfers, assets,
                   assetsCheckedAt, redisAssets, now, hist,
                   recent>>

\* POST and DELETE /warehouses/:warehouseId/assets up to the transaction
AssetsReceive(op, caller, w, customer, req) ==
    LET r == NextSlot
        seen == ReqWarehouse(warehouses[w])
        assigned == AssignedByWarehouse(warehouses, w, caller)
        v == validateAssets(req, FALSE, assets, assetsCheckedAt, now, redisAssets)
        resp == IF ~assigned THEN "A0011"
                ELSE IF v.result < 0 THEN "G0000"
                ELSE IF op = "deposit" /\ seen.collateralAvailable < v.result
                     THEN "H0000"
                ELSE "none"
        amount == IF op = "deposit" THEN v.result
                  ELSE CollateralToReturn(seen, v.result)
    IN
    /\ FreeSlots # {}
    /\ assets' = IF assigned THEN v.assets ELSE assets
    /\ assetsCheckedAt' = IF assigned THEN v.assetsCheckedAt ELSE assetsCheckedAt
    /\ reqs' = IF resp = "none"
                THEN [reqs EXCEPT ![r] = [pc |-> "txn", op |-> op, caller |-> caller,
                                          w |-> w, seen |-> seen, customer |-> customer,
                                          assets |-> req, amount |-> amount]]
                ELSE reqs
    /\ ev' = [op |-> op \o ".receive", resp |-> resp, caller |-> caller, w |-> w,
              customer |-> customer, assets |-> req, pushes |-> {}, emits |-> {}]
    /\ UNCHANGED <<wallets, registrations, warehouses, warehouseAccounts, transfers,
                   redisAssets, now, lastCreate, hist,
                   recent>>

\* POST /warehouses/:warehouseId/assets up to the transaction
WarehousesDepositReceive(caller, w, depositor, req) ==
    AssetsReceive("deposit", caller, w, depositor, req)

\* DELETE /warehouses/:warehouseId/assets up to the transaction
WarehousesWithdrawReceive(caller, w, withdrawer, req) ==
    AssetsReceive("withdraw", caller, w, withdrawer, req)

\* the transaction of a deposit or a withdrawal, the answer, then the
\* Recent-Activity push and the socket event
AssetsStep(r, x, resp, pushed) ==
    LET q == reqs[r] IN
    /\ warehouses' = x.warehouses
    /\ wallets' = x.wallets
    /\ lastCreate' = NoCreate
    /\ reqs' = [reqs EXCEPT ![r] = Idle]
    /\ ev' = [op |-> q.op, resp |-> resp, r |-> r, caller |-> q.caller, w |-> q.w,
              seen |-> q.seen, customer |-> q.customer, assets |-> q.assets,
              amount |-> q.amount,
              pushes |-> IF resp = "200" THEN {pushed} ELSE {},
              emits |-> IF resp = "200" THEN {q.customer} ELSE {}]
    /\ UNCHANGED <<registrations, warehouseAccounts, transfers, assets,
                   assetsCheckedAt, redisAssets, now, hist,
                   recent>>

\* POST /warehouses/:warehouseId/assets: the transaction and what follows it
WarehousesDepositTxn(r) ==
    /\ reqs[r].pc = "txn"
    /\ reqs[r].op = "deposit"
    /\ LET q == reqs[r]
           x == DepositTxn(warehouses, wallets, q.w, q.customer, q.assets, q.amount)
       IN AssetsStep(r, x, DepositResponse(x.flags), x.flags.recipientId)

\* DELETE /warehouses/:warehouseId/assets: the transaction and what follows it
WarehousesWithdrawTxn(r) ==
    /\ reqs[r].pc = "txn"
    /\ reqs[r].op = "withdraw"
    /\ LET q == reqs[r]
           x == WithdrawTxn(warehouses, wallets, q.w, q.customer, q.assets, q.amount)
       IN AssetsStep(r, x, WithdrawResponse(x.flags), x.flags.withdrawerId)

(***************************************************************************)
(* DELETE /user as the two steps it is made of, and the requests on        *)
(* /wallets that write ownerId (api/wallets.ts).  A user holds a session   *)
(* as long as its account exists.                                          *)
(***************************************************************************)
\* DELETE /user up to the transaction: the check for owned wallets, the lookup
\* of the caller's wallet and the password, which is the right one
UserDeleteReceive(user) ==
    LET r == NextSlot
        owner == \E w \in WalletIds : wallets[w].exists /\ wallets[w].ownerId = user
        resp == IF owner THEN "U0004"
                ELSE IF ~wallets[user].exists THEN "U0001"
                ELSE "none"
    IN
    /\ FreeSlots # {}
    /\ wallets[user].exists
    /\ reqs' = IF resp = "none"
                THEN [reqs EXCEPT ![r] = [pc |-> "txn", op |-> "user.delete",
                                          caller |-> user]]
                ELSE reqs
    /\ ev' = [op |-> "user.delete.receive", resp |-> resp, user |-> user]
    /\ UNCHANGED <<wallets, registrations, warehouses, warehouseAccounts, transfers,
                   assets, assetsCheckedAt, redisAssets, now, lastCreate, hist,
                   recent>>

\* DELETE /user: the transaction, the answer and the DEL that follows a success
UserDeleteTxn(r) ==
    /\ reqs[r].pc = "txn"
    /\ reqs[r].op = "user.delete"
    /\ LET user == reqs[r].caller
           t == DeleteTxn(wallets, user)
           resp == DeleteResponse(t.flags)
       IN
       /\ wallets' = t.wallets
       /\ reqs' = [reqs EXCEPT ![r] = Idle]
       /\ ev' = [op |-> "user.delete", resp |-> resp, user |-> user,
                 validPassword |-> TRUE, pushes |-> {}, emits |-> {},
                 dels |-> IF resp = "200" THEN {user} ELSE {}]
    /\ UNCHANGED <<registrations, warehouses, warehouseAccounts, transfers, assets,
                   assetsCheckedAt, redisAssets, now, lastCreate, hist, recent>>

\* POST /wallets behind isLoggedIn(true) with an address in the body: the
\* lookup of the address and the insert of {ownerId: session.walletId, ...}
WalletsCreate(user, address, webhook) ==
    LET taken == wallets[address].exists IN
    /\ wallets[user].exists
    /\ wallets' = IF taken THEN wallets
                  ELSE [wallets EXCEPT ![address] =
                          [exists |-> TRUE, assets |-> NoAssets, webhook |-> webhook,
                           ownerId |-> user, collateralAvailable |-> 0]]
    /\ ev' = [op |-> "wallets.create", resp |-> IF taken THEN "W0000" ELSE "201",
              user |-> user, address |-> address]
    /\ UNCHANGED <<registrations, warehouses, warehouseAccounts, transfers, assets,
                   assetsCheckedAt, redisAssets, now, reqs, lastCreate, hist,
                   recent>>

\* PUT /wallets/:address/owner behind isLoggedIn(true) and validWalletKey(),
\* with the wallet's key: the check of the owner, the lookup of the new owner
\* by username and the $set of ownerId
WalletsOwnerPut(user, address, username) ==
    LET resp == IF ~wallets[address].exists THEN "W0001"
                ELSE IF wallets[address].ownerId # user THEN "W0006"
                ELSE IF FindWallets(wallets, [field |-> "user.username",
                                              value |-> username]) = {}
                     THEN "U0001"
                ELSE "200"
    IN
    /\ wallets[user].exists
    /\ wallets' = IF resp = "200"
                  THEN [wallets EXCEPT ![address].ownerId = username]
                  ELSE wallets
    /\ ev' = [op |-> "wallets.owner", resp |-> resp, user |-> user,
              address |-> address, username |-> username]
    /\ UNCHANGED <<registrations, warehouses, warehouseAccounts, transfers, assets,
                   assetsCheckedAt, redisAssets, now, reqs, lastCreate, hist,
                   recent>>

(***************************************************************************)
(* The owner of a warehouse names a new owner, assigns a worker and        *)
(* removes one (api/warehouses.ts).  None of the three uses a transaction: *)
(* the handler's writes are made one after the other.                      *)
(***************************************************************************)
\* req.body.warehouseAccountId and req.params.warehouseAccountId: the accounts
\* that exist, and one that does not
AccountIds == Callers \cup {"carol"}

AssignmentStep(op, caller, w, target, resp, accts, whs) ==
    /\ warehouseAccounts' = accts
    /\ warehouses' = whs
    /\ ev' = [op |-> op, resp |-> resp, caller |-> caller, w |-> w,
              target |-> target]
    /\ UNCHANGED <<wallets, registrations, transfers, assets, assetsCheckedAt,
                   redisAssets, now, reqs, lastCreate, hist, recent>>

\* PUT /warehouses/:warehouseId/owner naming another account: the new owner's
\* entry gets the role of owner or is pushed, the caller's entry, if it has
\* one, the role of worker; the warehouse gets the new ownerId, the caller is
\* pushed to its workers and the new owner pulled from them
WarehousesOwnerPut(caller, w, target) ==
    LET found == target \in DOMAIN warehouseAccounts
        resp == IF ~OwnedByWarehouse(warehouses, w, caller) THEN "A0012"
                ELSE IF ~found THEN "U0006"
                ELSE "200"
    IN
    /\ target # caller
    /\ AssignmentStep("owner.put", caller, w, target, resp,
          IF resp = "200"
          THEN [warehouseAccounts EXCEPT ![target] = @ \cup {w}]
          ELSE warehouseAccounts,
          IF resp = "200"
          THEN [warehouses EXCEPT ![w].ownerId = target,
                                  ![w].workers = (@ \cup {caller}) \ {target}]
          ELSE warehouses)

\* POST /warehouses/:warehouseId/workers: {_id: target, "warehouses.warehouseId":
\* {$ne: w}} gets the entry pushed, then the warehouse gets the worker pushed
WarehousesWorkerPost(caller, w, target) ==
    LET matched == IF target \in DOMAIN warehouseAccounts
                   THEN w \notin warehouseAccounts[target] ELSE FALSE
        resp == IF ~OwnedByWarehouse(warehouses, w, caller) THEN "A0012"
                ELSE IF ~matched THEN "U0006"
                ELSE "200"
    IN
    AssignmentStep("worker.post", caller, w, target, resp,
       IF resp = "200"
       THEN [warehouseAccounts EXCEPT ![target] = @ \cup {w}]
       ELSE warehouseAccounts,
       IF resp = "200"
       THEN [warehouses EXCEPT ![w].workers = @ \cup {target}]
       ELSE warehouses)

\* DELETE /warehouses/:warehouseId/workers/:warehouseAccountId: {_id: target}
\* gets the entry of the warehouse pulled, whatever its role, then the
\* warehouse gets the worker pulled
WarehousesWorkerDelete(caller, w, target) ==
    LET modified == IF target \in DOMAIN warehouseAccounts
                    THEN w \in warehouseAccounts[target] ELSE FALSE
        resp == IF ~OwnedByWarehouse(warehouses, w, caller) THEN "A0012"
                ELSE IF ~modified THEN "U0006"
                ELSE "200"
    IN
    AssignmentStep("worker.delete", caller, w, target, resp,
       IF resp = "200"
       THEN [warehouseAccounts EXCEPT ![target] = @ \ {w}]
       ELSE warehouseAccounts,
       IF resp = "200"
       THEN [warehouses EXCEPT ![w].workers = @ \ {target}]
       ELSE warehouses)

\* PUT /users/:username with distribution: the callback ran through its writes and
\* the Recent-Activity push, and commitTransaction then fails: withTransaction
\* throws and nothing is answered
UsersApproveCommitFails(username) ==
    LET t == ApproveTxn(wallets, username) IN
    /\ username \in registrations
    /\ t.flags.pushed
    /\ wallets' = abortTransaction(wallets, t.wallets)
    /\ ev' = [op |-> "users.approve", resp |-> "unanswered", username |-> username,
              distribution |-> TRUE, flags |-> t.flags,
              pushes |-> {username}, emits |-> {}]
    /\ UNCHANGED <<registrations, warehouses, warehouseAccounts, transfers, assets,
                   assetsCheckedAt, redisAssets, now, reqs, lastCreate, hist,
                   recent>>

(***************************************************************************)
(* The environment: the clock, and the price source being edited.          *)
(***************************************************************************)
TickStep == ThirtyMinutes + 1

Tick ==
    /\ now < MaxTicks * TickStep
    /\ now' = now + TickStep
    /\ ev' = [op |-> "tick", resp |-> "none"]
    /\ UNCHANGED <<wallets, registrations, warehouses, warehouseAccounts,
                   transfers, assets, assetsCheckedAt, redisAssets, reqs,
                   lastCreate, hist,
                   recent>>

\* HSET assets <symbol> <value> by the operator of the price table
SetPrice(symbol, value) ==
    /\ redisAssets[symbol] # value
    /\ redisAssets' = [redisAssets EXCEPT ![symbol] = value]
    /\ ev' = [op |-> "setprice", resp |-> "none"]
    /\ UNCHANGED <<wallets, registrations, warehouses, warehouseAccounts,
                   transfers, assets, assetsCheckedAt, now, reqs,
                   lastCreate, hist,
                   recent>>

\* the fields the operator of the price table sets and removes; nothing keeps
\* the name of the reserve asset out of the table
Listed == {"wood", "iron", "stelo"}

\* HSET assets <symbol> <value>, also for a symbol the table does not hold yet
HSet(symbol, value) ==
    /\ IF symbol \in DOMAIN redisAssets THEN redisAssets[symbol] # value ELSE TRUE
    /\ redisAssets' = [k \in DOMAIN redisAssets \cup {symbol} |->
                         IF k = symbol THEN value ELSE redisAssets[k]]
    /\ ev' = [op |-> "hset", resp |-> "none"]
    /\ UNCHANGED <<wallets, registrations, warehouses, warehouseAccounts,
                   transfers, assets, assetsCheckedAt, now, reqs,
                   lastCreate, hist,
                   recent>>

\* HDEL assets <symbol>
HDel(symbol) ==
    /\ symbol \in DOMAIN redisAssets
    /\ redisAssets' = [k \in DOMAIN redisAssets \ {symbol} |-> redisAssets[k]]
    /\ ev' = [op |-> "hdel", resp |-> "none"]
    /\ UNCHANGED <<wallets, registrations, warehouses, warehouseAccounts,
                   transfers, assets, assetsCheckedAt, now, reqs,
                   lastCreate, hist,
                   recent>>

\* the quantity maps handed to validateAssets: one or two keys in either order
ValuationKeys == {"stelo"} \cup Listed

ValuationRequests ==
    {<<[key |-> k, qty |-> q]>> : k \in ValuationKeys, q \in 0..MaxQty}
    \cup {p \in {<<[key |-> k1, qty |-> q1], [key |-> k2, qty |-> MaxQty]>> :
                     k1 \in ValuationKeys, k2 \in ValuationKeys, q1 \in 0..1} :
            p[1].key # p[2].key}

\* one call of validateAssets(assetsToCheck, req, steloAllowed) by a handler
Valuate(req, steloAllowed) ==
    LET v == validateAssets(req, steloAllowed, assets, assetsCheckedAt, now,
                            redisAssets)
    IN
    /\ assets' = v.assets
    /\ assetsCheckedAt' = v.assetsCheckedAt
    /\ ev' = [op |-> "validateAssets", resp |-> "none", req |-> req,
              steloAllowed |-> steloAllowed, result |-> v.result,
              hgetall |-> v.hgetall, hmget |-> v.hmget]
    /\ UNCHANGED <<wallets, registrations, warehouses, warehouseAccounts,
                   transfers, redisAssets, now, reqs, lastCreate, hist,
                   recent>>

(***************************************************************************)
(* The Recent-Activity list of one wallet, the redis list at                *)
(* "wallets:<id>.transactions", under the MULTI blocks the handlers send to *)
(* it once they have answered with success.  The handler steps above name   *)
(* the lists they push to in ev'.pushes; the content of one such list is    *)
(* followed here on its own.  ttl counts days; appended is the history of   *)
(* the entries pushed since the key came to exist, newest first.            *)
(***************************************************************************)
ListStop == 9
FiveDays == 5

\* transaction.type of the entries
EntryTypes == {"send", "receive"}

NoActivity == [list |-> <<>>, ttl |-> 0, appended |-> <<>>]

\* LPUSH key element
lPush(list, e) == <<e>> \o list

\* LTRIM key start stop
lTrimNothing(list, start, stop) == list

lTrim(list, start, stop) ==
    SubSeq(list, start + 1, IF stop + 1 < Len(list) THEN stop + 1 ELSE Len(list))

\* multi().lPush(key, entry).lTrim(key, 0, 9).expire(key, 5 days).exec()
ActivityPush(e) ==
    /\ Len(recent.appended) < MaxAppends
    /\ recent' = [list |-> lTrim(lPush(recent.list, e), 0, ListStop),
                  ttl |-> FiveDays,
                  appended |-> <<e>> \o recent.appended]
    /\ ev' = [op |-> "activity.push", resp |-> "none"]
    /\ UNCHANGED <<wallets, registrations, warehouses, warehouseAccounts,
                   transfers, assets, assetsCheckedAt, redisAssets, now, reqs,
                   lastCreate, hist>>

\* PUT /users/:username: multi().lPush(key, entry).expire(key, 5 days).exec() on
\* the key of the wallet just inserted
ApprovalPush ==
    /\ recent = NoActivity
    /\ recent' = [list |-> lPush(recent.list, "receive"),
                  ttl |-> FiveDays,
                  appended |-> <<"receive">> \o recent.appended]
    /\ ev' = [op |-> "activity.approval", resp |-> "none"]
    /\ UNCHANGED <<wallets, registrations, warehouses, warehouseAccounts,
                   transfers, assets, assetsCheckedAt, redisAssets, now, reqs,
                   lastCreate, hist>>

\* a day passes; redis removes the key when its time to live has run out
DayPasses ==
    /\ recent.ttl > 0
    /\ recent' = IF recent.ttl = 1 THEN NoActivity
                 ELSE [recent EXCEPT !.ttl = @ - 1]
    /\ ev' = [op |-> "activity.day", resp |-> "none"]
    /\ UNCHANGED <<wallets, registrations, warehouses, warehouseAccounts,
                   transfers, assets, assetsCheckedAt, redisAssets, now, reqs,
                   lastCreate, hist>>

\* DEL key, sent when the wallet is deleted
ActivityDel ==
    /\ recent # NoActivity
    /\ recent' = NoActivity
    /\ ev' = [op |-> "activity.del", resp |-> "none"]
    /\ UNCHANGED <<wallets, registrations, warehouses, warehouseAccounts,
                   transfers, assets, assetsCheckedAt, redisAssets, now, reqs,
                   lastCreate, hist>>

(***************************************************************************)
(* Initial state: alice owns warehouse A and the smart wallet "shop", bob  *)
(* owns warehouse B, which holds two wood deposited at unit value 1; the   *)
(* distribution wallet holds one stelo more than the floor of a genesis    *)
(* distribution.                                                           *)
(***************************************************************************)
Wallet(stelo, wood, webhook, ownerId) ==
    [exists |-> TRUE, assets |-> [stelo |-> stelo, wood |-> wood],
     webhook |-> webhook, ownerId |-> ownerId, collateralAvailable |-> 0]

NoWallet ==
    [exists |-> FALSE, assets |-> NoAssets, webhook |-> FALSE, ownerId |-> "none",
     collateralAvailable |-> 0]

Warehouse(ownerId, collateral, collateralAvailable, wood) ==
    [ownerId |-> ownerId, workers |-> {}, collateral |-> collateral,
     collateralAvailable |-> collateralAvailable,
     assets |-> [NoAssets EXCEPT !["wood"] = wood]]

Init ==
    /\ wallets = [w \in WalletIds |->
                    CASE w = "alice" -> Wallet(2, 1, FALSE, "none")
                      [] w = "bob" -> Wallet(0, 0, FALSE, "none")
                      [] w = "carol" -> NoWallet
                      [] w = "shop" -> Wallet(0, 0, TRUE, "alice")
                      [] w = "genesisdistribution" ->
                           Wallet(DistributionFloor + 1, 0, FALSE, "none")
                      [] w = "stelotreasury" -> NoWallet]
    /\ registrations = {}
    /\ warehouses = [w \in WarehouseIds |->
                       IF w = "A" THEN Warehouse("alice", 4, 4, 0)
                       ELSE Warehouse("bob", 2, 0, 2)]
    /\ warehouseAccounts = [c \in Callers |-> IF c = "alice" THEN {"A"} ELSE {"B"}]
    /\ transfers = [t \in TransferIds |-> NoTransfer]
    /\ assets = [s \in Priced |-> [value |-> 1, updatedAt |-> 0]]
    /\ assetsCheckedAt = 0
    /\ redisAssets = [s \in Priced |-> 1]
    /\ now = 0
    /\ reqs = [r \in RequestIds |-> Idle]
    /\ lastCreate = NoCreate
    /\ hist = [t \in TransferIds |-> NoHistory]
    /\ ev = NoEvent
    /\ recent = NoActivity

NextLedger ==
    \/ \E s \in Senders, rcpt \in Recipients, req \in AssetRequests :
          \E hook \in HooksFor(rcpt) : WalletSend(s, rcpt, req, hook)
    \/ \E a \in Addresses, rcpt \in Recipients, req \in AssetRequests :
          \E hook \in HooksFor(rcpt) : WalletsSend(a, rcpt, req, hook)
    \/ \E u \in UserNames : UsersRegister(u)
    \/ \E u \in UserNames, d \in BOOLEAN : UsersApprove(u, d)

NextTransfers ==
    \/ \E c \in Callers, recv \in WarehouseIds, send \in WarehouseIds,
          req \in TransferRequests : TransfersCreateReceive(c, recv, send, req)
    \/ \E op \in {"cancel", "sent", "received"}, c \in Callers, t \in TransferIds :
          TransfersStatusReceive(op, c, t)
    \/ \E r \in RequestIds : TransfersCreateTxn(r)
    \/ \E r \in RequestIds : TransfersCancelTxn(r)
    \/ \E r \in RequestIds : TransfersAdvanceTxn(r)
    \/ \E r \in RequestIds : TransfersConfirmTxn(r)


\* one client: a request is sent once the one before it has answered
NoneInFlight == \A r \in RequestIds : reqs[r].pc # "txn"

NextSequential ==
    \/ /\ NoneInFlight
       /\ \E c \in Callers, recv \in WarehouseIds, send \in WarehouseIds,
             req \in TransferRequests : TransfersCreateReceive(c, recv, send, req)
    \/ /\ NoneInFlight
       /\ \E op \in {"cancel", "sent", "received"}, c \in Callers, t \in TransferIds :
             TransfersStatusReceive(op, c, t)
    \/ \E r \in RequestIds : TransfersCreateTxn(r)
    \/ \E r \in RequestIds : TransfersCancelTxn(r)
    \/ \E r \in RequestIds : TransfersAdvanceTxn(r)
    \/ \E r \in RequestIds : TransfersConfirmTxn(r)

\* the commit of a create may fail
NextFaulty ==
    \/ NextSequential
    \/ \E r \in RequestIds : TransfersCreateCommitFails(r)

\* the clock runs and the price source is edited
NextPriced ==
    \/ NextSequential
    \/ Tick
    \/ \E s \in Priced, v \in 1..MaxPrice : SetPrice(s, v)

\* the owners and workers of the warehouses at work, two requests at a time,
\* while the price source is edited
NextWarehouses ==
    \/ \E c \in Callers, w \in Depots, b \in CollateralBalances :
          WarehousesCollateralReceive(c, w, b)
    \/ \E c \in Callers, w \in Depots, d \in Customers, req \in TransferRequests :
          WarehousesDepositReceive(c, w, d, req)
    \/ \E c \in Callers, w \in Depots, d \in Customers, req \in TransferRequests :
          WarehousesWithdrawReceive(c, w, d, req)
    \/ \E r \in RequestIds : WarehousesCollateralTxn(r)
    \/ \E r \in RequestIds : WarehousesDepositTxn(r)
    \/ \E r \in RequestIds : WarehousesWithdrawTxn(r)
    \/ \E s \in Priced, v \in 1..MaxPrice : SetPrice(s, v)

\* deposits and withdrawals, two requests at a time, while the clock runs and the
\* price source is edited
NextStale ==
    \/ \E c \in Callers, w \in Depots, d \in Customers, req \in TransferRequests :
          WarehousesDepositReceive(c, w, d, req)
    \/ \E c \in Callers, w \in Depots, d \in Customers, req \in TransferRequests :
          WarehousesWithdrawReceive(c, w, d, req)
    \/ \E r \in RequestIds : WarehousesDepositTxn(r)
    \/ \E r \in RequestIds : WarehousesWithdrawTxn(r)
    \/ Tick
    \/ \E s \in Priced, v \in 1..MaxPrice : SetPrice(s, v)

\* registration and approval, the warehouses serving one request at a time, and
\* the commit of an approval may fail
NextNotified ==
    \/ \E u \in UserNames : UsersRegister(u)
    \/ \E u \in UserNames, d \in BOOLEAN : UsersApprove(u, d)
    \/ \E u \in UserNames : UsersApproveCommitFails(u)
    \/ /\ NoneInFlight
       /\ \E c \in Callers, w \in Depots, b \in CollateralBalances :
             WarehousesCollateralReceive(c, w, b)
    \/ /\ NoneInFlight
       /\ \E c \in Callers, w \in Depots, d \in Customers,
             req \in TransferRequests : WarehousesDepositReceive(c, w, d, req)
    \/ /\ NoneInFlight
       /\ \E c \in Callers, w \in Depots, d \in Customers,
             req \in TransferRequests : WarehousesWithdrawReceive(c, w, d, req)
    \/ \E r \in RequestIds : WarehousesCollateralTxn(r)
    \/ \E r \in RequestIds : WarehousesDepositTxn(r)
    \/ \E r \in RequestIds : WarehousesWithdrawTxn(r)

\* valuations while the clock runs and the price table is edited
NextValuation ==
    \/ \E req \in ValuationRequests, a \in BOOLEAN : Valuate(req, a)
    \/ Tick
    \/ \E k \in Listed, v \in 1..MaxPrice : HSet(k, v)
    \/ \E k \in Listed : HDel(k)

\* deposits and withdrawals, one request at a time, while the clock runs and
\* fields of the price table are set and removed
NextEvict ==
    \/ /\ NoneInFlight
       /\ \E c \in Callers, w \in Depots, d \in Customers, req \in TransferRequests :
             WarehousesDepositReceive(c, w, d, req)
    \/ /\ NoneInFlight
       /\ \E c \in Callers, w \in Depots, d \in Customers, req \in TransferRequests :
             WarehousesWithdrawReceive(c, w, d, req)
    \/ \E r \in RequestIds : WarehousesDepositTxn(r)
    \/ \E r \in RequestIds : WarehousesWithdrawTxn(r)
    \/ Tick
    \/ \E k \in Priced, v \in 1..MaxPrice : HSet(k, v)
    \/ \E k \in Priced : HDel(k)

\* the commands that reach one Recent-Activity list
NextActivity ==
    \/ \E e \in EntryTypes : ActivityPush(e)
    \/ ApprovalPush
    \/ DayPasses
    \/ ActivityDel

\* users send, register, are approved and delete their accounts
NextAccounts ==
    \/ \E s \in Senders, rcpt \in {r \in Recipients : ~r.hash},
          req \in AssetRequests :
          WalletSend(s, rcpt, req, "ok")
    \/ \E u \in UserNames : UsersRegister(u)
    \/ \E u \in UserNames, d \in BOOLEAN : UsersApprove(u, d)
    \/ \E u \in UserNames, p \in BOOLEAN : UserDelete(u, p)
    \/ SeedTreasury

\* the warehouse that receives the transfers and serves alice
Receiving == {"A"}

\* req.body.assets of the deposits and withdrawals made there
OneWood == <<[key |-> "wood", qty |-> 1]>>

\* one client creates, cancels, advances and confirms transfers, deposits and
\* withdraws at the receiving warehouse and adjusts its collateral, while the
\* clock runs and the price source is edited
NextLocked ==
    \/ /\ NoneInFlight
       /\ \E w \in Receiving, send \in WarehouseIds, req \in TransferRequests :
             TransfersCreateReceive("alice", w, send, req)
    \/ /\ NoneInFlight
       /\ \E op \in {"cancel", "sent", "received"}, c \in Callers, t \in TransferIds :
             TransfersStatusReceive(op, c, t)
    \/ \E r \in RequestIds : TransfersCreateTxn(r)
    \/ \E r \in RequestIds : TransfersCancelTxn(r)
    \/ \E r \in RequestIds : TransfersAdvanceTxn(r)
    \/ \E r \in RequestIds : TransfersConfirmTxn(r)
    \/ /\ NoneInFlight
       /\ \E w \in Receiving : WarehousesCollateralReceive("alice", w, -1)
    \/ /\ NoneInFlight
       /\ \E w \in Receiving :
             WarehousesDepositReceive("alice", w, "alice", OneWood)
    \/ /\ NoneInFlight
       /\ \E w \in Receiving :
             WarehousesWithdrawReceive("alice", w, "alice", OneWood)
    \/ \E r \in RequestIds : WarehousesCollateralTxn(r)
    \/ \E r \in RequestIds : WarehousesDepositTxn(r)
    \/ \E r \in RequestIds : WarehousesWithdrawTxn(r)
    \/ Tick
    \/ \E s \in Priced, v \in 1..MaxPrice : SetPrice(s, v)

\* the owners hand over their warehouses and assign and remove workers
NextAssignments ==
    \/ \E c \in Callers, w \in WarehouseIds, a \in AccountIds :
          WarehousesOwnerPut(c, w, a)
    \/ \E c \in Callers, w \in WarehouseIds, a \in AccountIds :
          WarehousesWorkerPost(c, w, a)
    \/ \E c \in Callers, w \in WarehouseIds, a \in AccountIds :
          WarehousesWorkerDelete(c, w, a)

\* users send and delete their custodial wallets and their accounts
NextDeletions ==
    \/ \E s \in Senders, rcpt \in {r \in Recipients : ~r.hash},
          req \in AssetRequests :
          WalletSend(s, rcpt, req, "ok")
    \/ \E a \in Addresses, u \in UserNames, k \in BOOLEAN : WalletsDelete(a, u, k)
    \/ \E u \in UserNames, p \in BOOLEAN : UserDelete(u, p)
    \/ SeedTreasury

\* two requests at a time on the transfers, while the owner of the receiving
\* warehouse assigns and removes workers
NextStuck ==
    \/ \E c \in Callers, w \in Receiving :
          TransfersCreateReceive(c, w, "B", OneWood)
    \/ \E op \in {"cancel", "sent", "received"}, c \in Callers, t \in TransferIds :
          TransfersStatusReceive(op, c, t)
    \/ \E r \in RequestIds : TransfersCreateTxn(r)
    \/ \E r \in RequestIds : TransfersCancelTxn(r)
    \/ \E r \in RequestIds : TransfersAdvanceTxn(r)
    \/ \E r \in RequestIds : TransfersConfirmTxn(r)
    \/ \E c \in Callers, w \in Receiving, a \in Callers :
          WarehousesWorkerPost(c, w, a)
    \/ \E c \in Callers, w \in Receiving, a \in Callers :
          WarehousesWorkerDelete(c, w, a)

\* users create custodial wallets, hand them over, delete them and delete their
\* accounts, two deletions of accounts at a time
NextOrphans ==
    \/ \E u \in UserNames : UserDeleteReceive(u)
    \/ \E r \in RequestIds : UserDeleteTxn(r)
    \/ \E u \in UserNames, a \in Addresses, h \in BOOLEAN : WalletsCreate(u, a, h)
    \/ \E u \in UserNames, a \in Addresses, n \in UserNames : WalletsOwnerPut(u, a, n)
    \/ \E a \in Addresses, u \in UserNames, k \in BOOLEAN : WalletsDelete(a, u, k)
    \/ SeedTreasury

SpecLedger == Init /\ [][NextLedger]_vars

SpecTransfers == Init /\ [][NextTransfers]_vars

SpecFaulty == Init /\ [][NextFaulty]_vars

SpecPriced == Init /\ [][NextPriced]_vars

SpecWarehouses == Init /\ [][NextWarehouses]_vars

SpecNotified == Init /\ [][NextNotified]_vars

SpecStale == Init /\ [][NextStale]_vars

SpecValuation == Init /\ [][NextValuation]_vars

SpecEvict == Init /\ [][NextEvict]_vars

SpecActivity == Init /\ [][NextActivity]_vars

SpecAccounts == Init /\ [][NextAccounts]_vars

SpecLocked == Init /\ [][NextLocked]_vars

SpecAssignments == Init /\ [][NextAssignments]_vars

SpecDeletions == Init /\ [][NextDeletions]_vars

SpecOrphans == Init /\ [][NextOrphans]_vars

SpecStuck == Init /\ [][NextStuck]_vars

\* a caller whose account lists a warehouse of a pending transfer asks to
\* cancel it
CancelAttempt(c, t) ==
    /\ transfers[t].status = "pending"
    /\ AssignedByAccount(warehouseAccounts, c, transfers[t].receivingWarehouse)
       \/ AssignedByAccount(warehouseAccounts, c, transfers[t].sendingWarehouse)
    /\ TransfersStatusReceive("cancel", c, t)

\* a caller whose account lists the receiving warehouse of a sent transfer asks
\* to confirm it
ConfirmAttempt(c, t) ==
    /\ transfers[t].status = "sent"
    /\ AssignedByAccount(warehouseAccounts, c, transfers[t].receivingWarehouse)
    /\ TransfersStatusReceive("received", c, t)

\* every transaction that has begun ends, and the assigned callers keep asking
Fairness ==
    /\ \A r \in RequestIds :
          /\ WF_vars(TransfersCreateTxn(r))
          /\ WF_vars(TransfersCancelTxn(r))
          /\ WF_vars(TransfersAdvanceTxn(r))
          /\ WF_vars(TransfersConfirmTxn(r))
    /\ \A c \in Callers : \A t \in TransferIds :
          /\ SF_vars(CancelAttempt(c, t))
          /\ SF_vars(ConfirmAttempt(c, t))

FairStuck == SpecStuck /\ Fairness

FairTransfers == SpecTransfers /\ Fairness

(***************************************************************************)
(* Properties of the ledger (SpecLedger).  A step is read from ev', the    *)
(* record of the handler that took it.                                     *)
(***************************************************************************)
SendAnswered(e) == e.op \in {"wallet.send", "wallets.send"}

Debited(before, after, req) ==
    \A s \in Symbols : after[s] = before[s] - QtyOf(req, s)

Credited(before, after, req) ==
    \A s \in Symbols : after[s] = before[s] + QtyOf(req, s)

C2_NoNegativeBalances ==
    /\ \A w \in WalletIds : \A s \in Symbols : wallets[w].assets[s] >= 0
    /\ \A w \in WarehouseIds : \A s \in Symbols : warehouses[w].assets[s] >= 0

\* C4: when the recipient of a valid send is a wallet with a webhook and the call
\* to it answers with a non-success status, fails in transport or times out, the
\* request is answered with the webhook-failure error and every wallet, sender and
\* recipient included, holds what it held before the request.
C4_WebhookFailureAtomic ==
    [][(/\ SendAnswered(ev')
        /\ ev'.resp # "G0000"
        /\ \E w \in FindWallets(wallets, RecipientFilter(ev'.rcpt)) : wallets[w].webhook
        /\ ev'.hook \in {"status500", "transportError", "timeout"})
       => (ev'.resp = "W0004" /\ wallets' = wallets)]_vars

\* a send by a sender who holds the quantities has met a webhook that timed out
C4_Witness ==
    /\ SendAnswered(ev)
    /\ ev.hook = "timeout"
    /\ ev.flags.webhookCalls = 1
    /\ ev.resp = "W0004"
    /\ Len(ev.req) >= 1
    /\ HasAssets(wallets[ev.sender].assets, ev.req)
    /\ \E k \in KeysOf(ev.req) : QtyOf(ev.req, k) >= 1

(***************************************************************************)
(* Properties of the transfer state machine.                               *)
(***************************************************************************)
\* C3 as stated: every warehouse has 0 <= collateralAvailable <= collateral.
C3_CollateralBound ==
    \A w \in WarehouseIds :
        /\ 0 <= warehouses[w].collateralAvailable
        /\ warehouses[w].collateralAvailable <= warehouses[w].collateral

StatusDone(r, op) == reqs[r].pc = "done" /\ reqs[r].op = op

AssignedTo(r, side) ==
    AssignedByAccount(warehouseAccounts, reqs[r].caller, reqs[r].seen[side])

\* two 'advance to sent' requests on one transfer, both arrived while it was
\* pending, both by callers assigned to its sending warehouse, both answered
C5_Pair(r1, r2) ==
    /\ r1 # r2
    /\ StatusDone(r1, "sent") /\ StatusDone(r2, "sent")
    /\ reqs[r1].t = reqs[r2].t
    /\ reqs[r1].seen.status = "pending" /\ reqs[r2].seen.status = "pending"
    /\ AssignedTo(r1, "sendingWarehouse") /\ AssignedTo(r2, "sendingWarehouse")

\* C5: of two concurrent 'advance to sent' requests on the same pending transfer by
\* callers assigned to the sending warehouse, one is answered with success and the
\* other with transfer-not-found, and the transfer is in status sent, advanced once.
C5_IdempotentAdvance ==
    \A r1 \in RequestIds : \A r2 \in RequestIds :
        C5_Pair(r1, r2) =>
            /\ {reqs[r1].resp, reqs[r2].resp} = {"200", "T0001"}
            /\ transfers[reqs[r1].t].status = "sent"
            /\ hist[reqs[r1].t].advanced = 1

\* both of two concurrent advances have answered
C5_Witness ==
    \E r1 \in RequestIds : \E r2 \in RequestIds :
        C5_Pair(r1, r2) /\ reqs[r1].resp = "200" /\ reqs[r2].resp = "T0001"

Authorized(r) ==
    CASE reqs[r].op = "cancel" ->
           AssignedTo(r, "receivingWarehouse") \/ AssignedTo(r, "sendingWarehouse")
      [] reqs[r].op = "sent" -> AssignedTo(r, "sendingWarehouse")
      [] reqs[r].op = "received" -> AssignedTo(r, "receivingWarehouse")

\* two authorized status-changing requests on one transfer that arrived while it
\* was in the status both need: cancel against advance or cancel (pending), or
\* confirm against confirm (sent); both answered
C6_Pair(r1, r2) ==
    /\ r1 # r2
    /\ reqs[r1].pc = "done" /\ reqs[r2].pc = "done"
    /\ reqs[r1].t = reqs[r2].t
    /\ reqs[r1].seen.status = reqs[r2].seen.status
    /\ IF reqs[r1].seen.status = "pending"
       THEN reqs[r1].op = "cancel" /\ reqs[r2].op \in {"cancel", "sent"}
       ELSE /\ reqs[r1].seen.status = "sent"
            /\ reqs[r1].op = "received" /\ reqs[r2].op = "received"
    /\ Authorized(r1) /\ Authorized(r2)

C6_State ==
    /\ \A r1 \in RequestIds : \A r2 \in RequestIds :
          C6_Pair(r1, r2) => {reqs[r1].resp, reqs[r2].resp} = {"200", "T0001"}
    /\ \A t \in TransferIds :
          /\ hist[t].cancelled + hist[t].confirmed <= 1
          /\ hist[t].advanced <= 1
          /\ hist[t].cancelled = 1 => hist[t].advanced = 0

C6_Step ==
    (ev'.op \in {"cancel", "sent", "received"} /\ ev'.resp # "200")
        => (warehouses' = warehouses /\ transfers' = transfers)

\* C6: of two concurrent authorized requests on one transfer (cancel against
\* advance, cancel against cancel, confirm against confirm) one is answered with
\* success and the other with transfer-not-found; a status request that is not
\* answered with success changes no warehouse and no transfer; a transfer is never
\* both cancelled and advanced, and is cancelled or confirmed at most once.
C6_MutualExclusion == []C6_State /\ [][C6_Step]_vars

\* a cancel and an advance have raced on a pending transfer and the cancel has lost
C6_Witness ==
    \E r1 \in RequestIds : \E r2 \in RequestIds :
        /\ C6_Pair(r1, r2)
        /\ reqs[r1].op = "cancel" /\ reqs[r2].op = "sent"
        /\ reqs[r1].resp = "T0001" /\ reqs[r2].resp = "200"

Pending(body) ==
    [status |-> "pending", collateralUsed |-> body.collateralNeeded,
     receivingWarehouse |-> body.receivingWarehouse,
     sendingWarehouse |-> body.sendingWarehouse, assets |-> body.assets]

\* C7 as stated: a successful create takes collateralNeeded from the receiving
\* warehouse's collateralAvailable and the quantities from the sending warehouse's
\* inventory and inserts one pending Transfer record with collateralUsed =
\* collateralNeeded; a create that fails, or whose unit does not commit, changes no
\* warehouse and leaves no Transfer record, and lacking collateral and lacking
\* assets are answered with different errors.
C7_CreateAllOrNothing ==
    [][ev'.op = "create" =>
        LET body == ev'.body
            recv == body.receivingWarehouse
            send == body.sendingWarehouse
            hasCollateral == warehouses[recv].collateralAvailable >= body.collateralNeeded
            hasAssets == HasAssets(warehouses[send].assets, body.assets)
        IN IF ev'.resp = "201"
           THEN /\ hasCollateral /\ hasAssets
                /\ transfers[ev'.t] = NoTransfer
                /\ transfers' = [transfers EXCEPT ![ev'.t] = Pending(body)]
                /\ \A w \in WarehouseIds :
                     /\ warehouses'[w].collateral = warehouses[w].collateral
                     /\ warehouses'[w].collateralAvailable =
                          warehouses[w].collateralAvailable
                            - (IF w = recv THEN body.collateralNeeded ELSE 0)
                     /\ IF w = send
                        THEN Debited(warehouses[w].assets, warehouses'[w].assets,
                                     body.assets)
                        ELSE warehouses'[w].assets = warehouses[w].assets
           ELSE /\ transfers' = transfers
                /\ warehouses' = warehouses
                /\ ~hasCollateral => ev'.resp = "H0000"
                /\ (hasCollateral /\ ~hasAssets) => ev'.resp = "H0001"]_vars

\* C8 as stated: a successful confirmation deletes the Transfer record, adds its
\* assets to the receiving warehouse's inventory and adds its collateralUsed to the
\* receiving warehouse's collateralAvailable.
C8_ConfirmReleasesToReceiving ==
    [][(ev'.op = "received" /\ ev'.resp = "200") =>
        LET doc == ev'.doc
            recv == doc.receivingWarehouse
        IN /\ transfers'[ev'.t] = NoTransfer
           /\ Credited(warehouses[recv].assets, warehouses'[recv].assets, doc.assets)
           /\ warehouses'[recv].collateralAvailable =
                warehouses[recv].collateralAvailable + doc.collateralUsed]_vars

\* C8: a confirmation by a caller assigned to the receiving warehouse of a transfer
\* in status sent deletes the Transfer record, adds its assets to the receiving
\* warehouse's inventory and adds its collateralUsed to the SENDING warehouse's
\* collateralAvailable; the receiving warehouse's collateralAvailable stays at
\* the value the create left it with, unless it is the sending warehouse too.
C8_ConfirmReleasesToSending ==
    [][(ev'.op = "received" /\ ev'.resp = "200") =>
        LET doc == ev'.doc
            recv == doc.receivingWarehouse
            send == doc.sendingWarehouse
        IN /\ doc.status = "sent"
           /\ AssignedByAccount(warehouseAccounts, ev'.caller, recv)
           /\ transfers'[ev'.t] = NoTransfer
           /\ \A w \in WarehouseIds :
                /\ warehouses'[w].collateral = warehouses[w].collateral
                /\ warehouses'[w].collateralAvailable =
                     warehouses[w].collateralAvailable
                       + (IF w = send THEN doc.collateralUsed ELSE 0)
                /\ IF w = recv
                   THEN Credited(warehouses[w].assets, warehouses'[w].assets,
                                 doc.assets)
                   ELSE warehouses'[w].assets = warehouses[w].assets]_vars

\* a transfer between two different warehouses has been confirmed as received
C8_Witness ==
    /\ ev.op = "received"
    /\ ev.resp = "200"
    /\ ev.doc.receivingWarehouse # ev.doc.sendingWarehouse
    /\ ev.doc.collateralUsed >= 1
    /\ transfers[ev.t] = NoTransfer

\* C9: a cancel of a pending transfer by a caller assigned to either side deletes
\* the record, adds its assets back to the sending warehouse's inventory and its
\* collateralUsed back to the receiving warehouse's collateralAvailable; when the
\* cancel follows the create of that transfer with no other operation in between,
\* every warehouse is as it was before the create.
C9_CancelUndoesCreate ==
    [][(ev'.op = "cancel" /\ ev'.resp = "200") =>
        LET doc == ev'.doc
            recv == doc.receivingWarehouse
            send == doc.sendingWarehouse
        IN /\ doc.status = "pending"
           /\ \/ AssignedByAccount(warehouseAccounts, ev'.caller, recv)
              \/ AssignedByAccount(warehouseAccounts, ev'.caller, send)
           /\ transfers'[ev'.t] = NoTransfer
           /\ Credited(warehouses[send].assets, warehouses'[send].assets, doc.assets)
           /\ warehouses'[recv].collateralAvailable =
                warehouses[recv].collateralAvailable + doc.collateralUsed
           /\ lastCreate.t = ev'.t => warehouses' = lastCreate.warehouses]_vars

\* a transfer has been cancelled right after its create
C9_Witness ==
    /\ ev.op = "cancel"
    /\ ev.resp = "200"
    /\ ev.afterCreate
    /\ ev.doc.collateralUsed >= 1
    /\ transfers[ev.t] = NoTransfer

CancelOfSent(e) ==
    /\ e.op = "cancel"
    /\ e.doc.status = "sent"
    /\ \/ AssignedByAccount(warehouseAccounts, e.caller, e.doc.receivingWarehouse)
       \/ AssignedByAccount(warehouseAccounts, e.caller, e.doc.sendingWarehouse)

\* C10 as stated: a cancel of a transfer in status sent by a caller assigned to
\* either side deletes the record, returns its assets to the sending warehouse and
\* its collateralUsed to the receiving warehouse's collateralAvailable.
C10_SentCancelledWithRollback ==
    [][CancelOfSent(ev') =>
        LET doc == ev'.doc IN
        /\ transfers'[ev'.t] = NoTransfer
        /\ Credited(warehouses[doc.sendingWarehouse].assets,
                    warehouses'[doc.sendingWarehouse].assets, doc.assets)
        /\ warehouses'[doc.receivingWarehouse].collateralAvailable =
             warehouses[doc.receivingWarehouse].collateralAvailable
               + doc.collateralUsed]_vars

\* C10: a cancel of a transfer in status sent by a caller assigned to either side
\* is answered with transfer-not-found; the record stays in status sent and no
\* warehouse changes.
C10_SentCannotBeCancelled ==
    [][CancelOfSent(ev') =>
        /\ ev'.resp = "T0001"
        /\ transfers' = transfers
        /\ transfers'[ev'.t].status = "sent"
        /\ warehouses' = warehouses]_vars

\* a caller assigned to the transfer has asked to cancel it while it was sent
C10_Witness ==
    /\ ev.op = "cancel"
    /\ ev.resp = "T0001"
    /\ ev.doc.status = "sent"
    /\ AssignedByAccount(warehouseAccounts, ev.caller, ev.doc.sendingWarehouse)

C11_State ==
    \A t \in TransferIds :
        /\ transfers[t].status \in {"none", "pending", "sent"}
        /\ hist[t].confirmed >= 1 => hist[t].advanced >= 1
        /\ transfers[t].status = "sent" => hist[t].advanced >= 1

C11_Step ==
    \A t \in TransferIds :
        transfers'[t] # transfers[t] =>
            CASE transfers[t].status = "none" ->
                   /\ hist[t].inserted = 0
                   /\ ev'.op = "create"
                   /\ transfers'[t].status = "pending"
              [] transfers[t].status = "pending" ->
                   \/ /\ ev'.op = "sent"
                      /\ transfers'[t] = [transfers[t] EXCEPT !.status = "sent"]
                      /\ warehouses' = warehouses
                   \/ /\ ev'.op = "cancel"
                      /\ transfers'[t] = NoTransfer
              [] transfers[t].status = "sent" ->
                   /\ ev'.op = "received"
                   /\ transfers'[t] = NoTransfer

\* C11: the stored status of a Transfer record is pending or sent; a record only
\* changes by being inserted as pending under an id never used before, by going
\* from pending to sent in an advance, which changes no warehouse, by being deleted
\* from pending in a cancel, or by being deleted from sent in a confirmation; so a
\* confirmation only takes effect on a transfer that was advanced, a sent transfer
\* never returns to pending and a deleted transfer never reappears.
C11_LifecycleOrdering == []C11_State /\ [][C11_Step]_vars

\* a transfer has gone through pending and sent and has been confirmed
C11_Witness ==
    \E t \in TransferIds :
        /\ hist[t].inserted = 1 /\ hist[t].advanced = 1 /\ hist[t].confirmed = 1
        /\ transfers[t] = NoTransfer
        /\ ev.op = "received" /\ ev.resp = "200"

\* the caller's warehouseAccounts document lists the warehouse
Lists(caller, w) == w \in warehouseAccounts[caller]

\* the warehouse names the caller as its owner or as a worker
Names(w, caller) == warehouses[w].ownerId = caller \/ caller \in warehouses[w].workers

TakesEffect == warehouses' # warehouses \/ transfers' # transfers

Unauthorized(e) ==
    /\ e.op \in {"cancel", "sent", "received"}
    /\ e.doc.status = (IF e.op = "received" THEN "sent" ELSE "pending")
    /\ CASE e.op = "cancel" -> /\ ~Lists(e.caller, e.doc.receivingWarehouse)
                               /\ ~Lists(e.caller, e.doc.sendingWarehouse)
         [] e.op = "sent" -> ~Lists(e.caller, e.doc.sendingWarehouse)
         [] e.op = "received" -> ~Lists(e.caller, e.doc.receivingWarehouse)

\* C13: a cancel, advance or confirmation of a transfer in the matching status by
\* a caller without the required assignment is answered with the permission
\* error, not with not-found, and leaves the Transfer record and every warehouse
\* as they were.
C13_UnauthorizedNoEffect ==
    [][Unauthorized(ev') =>
        /\ ev'.resp = "T0002"
        /\ transfers' = transfers
        /\ warehouses' = warehouses]_vars

\* a caller not assigned to the receiving warehouse has asked to confirm a sent
\* transfer, which is still there in status sent
C13_Witness ==
    /\ Unauthorized(ev)
    /\ ev.op = "received"
    /\ ev.resp = "T0002"
    /\ transfers[ev.t] = ev.doc

(***************************************************************************)
(* The answer of a failed peer transfer.  The conditions are read from the *)
(* state before the request and from the request.                          *)
(***************************************************************************)
ValidSend(e) == SendAnswered(e) /\ e.resp # "G0000"

RecipientMissing(e) == FindWallets(wallets, RecipientFilter(e.rcpt)) = {}

WebhookFails(e) ==
    /\ \E w \in FindWallets(wallets, RecipientFilter(e.rcpt)) : wallets[w].webhook
    /\ e.hook # "ok"

SenderLacks(e) ==
    \E k \in KeysOf(e.req) : wallets[e.sender].assets[k] < QtyOf(e.req, k)

ToItself(e) == FindWallets(wallets, RecipientFilter(e.rcpt)) = {e.sender}

\* C15 as stated: a send whose recipient does not exist, or whose recipient's
\* webhook fails, and whose sender lacks the quantities is answered with
\* insufficient-funds.
C15_FundsReportedFirst ==
    [][(ValidSend(ev') /\ SenderLacks(ev') /\ (RecipientMissing(ev') \/ WebhookFails(ev')))
        => ev'.resp = "W0002"]_vars

\* C15: when more than one failure condition applies to a send, the answer is the
\* failure met first in execution order: a missing recipient is answered with
\* recipient-not-found and a failing webhook with webhook-failure also when the
\* sender lacks the quantities, and insufficient-funds is answered only when the
\* recipient was found and its webhook, if it has one, succeeded.
C15_FirstFailureReported ==
    [][ValidSend(ev') =>
        /\ (RecipientMissing(ev') /\ SenderLacks(ev')) => ev'.resp = "W0003"
        /\ (WebhookFails(ev') /\ SenderLacks(ev')) => ev'.resp = "W0004"
        /\ ev'.resp = "W0002" =>
             (~RecipientMissing(ev') /\ ~WebhookFails(ev') /\ SenderLacks(ev'))]_vars

\* a send by a sender who lacks the quantities has met a failing webhook
C15_Witness ==
    /\ ValidSend(ev)
    /\ WebhookFails(ev)
    /\ SenderLacks(ev)
    /\ ev.resp = "W0004"

\* C16: a failed send is answered with exactly the error of the first
\* precondition that fails in execution order (recipient resolution, webhook,
\* sender sufficiency), a send with no failing precondition with success, and
\* one execution sets at most one of the three failure flags.
C16_FirstFailingPrecondition ==
    [][ValidSend(ev') =>
        /\ ev'.resp =
             (IF RecipientMissing(ev') THEN "W0003"
              ELSE IF WebhookFails(ev') THEN "W0004"
              ELSE IF SenderLacks(ev') /\ ~ToItself(ev') THEN "W0002"
              ELSE "201")
        /\ Cardinality({f \in {"hasFunds", "recipientFound"} : ~ev'.flags[f]}
                       \cup {f \in {"webhookFailed"} : ev'.flags[f]}) <= 1]_vars

\* a send has failed on the sender's funds after its recipient was found and
\* the recipient's webhook had answered
C16_Witness ==
    /\ ValidSend(ev)
    /\ ev.resp = "W0002"
    /\ ev.flags.webhookCalls = 1
    /\ ev.hook = "ok"
    /\ SenderLacks(ev)

\* the wallets the recipient of the send resolves to, which carry a webhook
HookedRecipients(e) ==
    {w \in FindWallets(wallets, RecipientFilter(e.rcpt)) : wallets[w].webhook}

\* C29 as stated: when the webhook of the recipient of a valid send answers with
\* success and the sender holds less than the sent quantity of some asset, the
\* send is answered with insufficient-funds, the recipient holds what it held
\* before the request, and the webhook was called exactly once.
C29_WebhookThenShort ==
    [][(ValidSend(ev') /\ HookedRecipients(ev') # {} /\ ev'.hook = "ok"
          /\ SenderLacks(ev')) =>
        /\ ev'.resp = "W0002"
        /\ \A w \in HookedRecipients(ev') : wallets'[w] = wallets[w]
        /\ ev'.flags.webhookCalls = 1]_vars

\* C30 as stated: a send is answered with success only if, before the request,
\* the sender held at least the sent quantity of every sent asset, whatever
\* wallet the recipient resolves to, the sender's own included.
C30_SuccessOnlyIfCovered ==
    [][(ValidSend(ev') /\ ev'.resp = "201") => ~SenderLacks(ev')]_vars

(***************************************************************************)
(* Properties of the warehouse requests (SpecWarehouses, SpecNotified).    *)
(***************************************************************************)
Notifying ==
    {"wallet.send", "wallets.send", "users.approve", "collateral", "deposit",
     "withdraw"}

Notifies(e) == e.op \in Notifying /\ (e.pushes # {} \/ e.emits # {})

\* C14: an entry is appended to a Recent-Activity list, or a real-time event is
\* emitted, only by an operation whose atomic unit has committed and that
\* reports success; an operation that fails appends and emits nothing.
C14_NoSpuriousNotification ==
    [][Notifies(ev') => ev'.resp \in {"200", "201"}]_vars

PledgeDone(e) == e.op = "collateral" /\ e.balance > 0

\* C17: a pledge of n by a caller who holds at least n stelo takes n from the
\* caller's stelo and adds n to both collateral and collateralAvailable of the
\* warehouse, in one step; a pledge by a caller who holds less is answered with
\* insufficient funds and changes neither the wallets nor the warehouses.
C17_Pledge ==
    [][PledgeDone(ev') =>
        LET n == ev'.balance
            c == ev'.caller
            w == ev'.w
        IN
        IF wallets[c].assets["stelo"] >= n
        THEN /\ ev'.resp = "200"
             /\ wallets' = [wallets EXCEPT ![c].assets["stelo"] = @ - n]
             /\ warehouses' = [warehouses EXCEPT
                                 ![w].collateral = @ + n,
                                 ![w].collateralAvailable = @ + n]
        ELSE /\ ev'.resp = "W0002"
             /\ wallets' = wallets
             /\ warehouses' = warehouses]_vars

\* a pledge has been accepted
C17_Witness ==
    /\ PledgeDone(ev)
    /\ ev.resp = "200"
    /\ warehouses[ev.w].collateral >= ev.balance

ReclaimAsked(e) == e.op \in {"collateral", "collateral.receive"} /\ e.balance < 0

\* C18: a reclaim of n succeeds exactly when collateralAvailable of the warehouse
\* is at least n when the atomic write is made, whatever its total collateral; a
\* reclaim that succeeds takes n from collateralAvailable and adds n to the
\* caller's stelo in the same step; a reclaim that fails, before or in the
\* atomic unit, is answered with no-collateral when collateralAvailable is less
\* than n at that moment, and it changes neither the wallets nor the warehouses.
C18_Reclaim ==
    [][ReclaimAsked(ev') =>
        LET n == 0 - ev'.balance
            c == ev'.caller
            w == ev'.w
        IN
        IF ev'.op = "collateral"
        THEN
          IF warehouses[w].collateralAvailable >= n
          THEN /\ ev'.resp = "200"
               /\ warehouses'[w].collateralAvailable =
                    warehouses[w].collateralAvailable - n
               /\ \A o \in WarehouseIds \ {w} : warehouses'[o] = warehouses[o]
               /\ wallets' = [wallets EXCEPT ![c].assets["stelo"] = @ + n]
          ELSE /\ ev'.resp = "H0000"
               /\ wallets' = wallets
               /\ warehouses' = warehouses
        ELSE
          /\ wallets' = wallets
          /\ warehouses' = warehouses
          /\ ev'.resp = "H0000" => warehouses[w].collateralAvailable < n
          /\ (ev'.resp = "none") = (warehouses[w].ownerId = c
                                    /\ warehouses[w].collateralAvailable >= n)]_vars

\* a reclaim has been refused in its atomic unit by a warehouse whose total
\* collateral would have covered it
C18_Witness ==
    /\ ev.op = "collateral"
    /\ ev.balance < 0
    /\ ev.resp = "H0000"
    /\ warehouses[ev.w].collateral >= 0 - ev.balance
    /\ ev.seen.collateralAvailable >= 0 - ev.balance

\* C19: a withdrawal that succeeds, also one whose atomic unit runs after other
\* requests on the warehouse have committed since its assignment check, leaves
\* collateralAvailable of the warehouse at most its collateral.
C19_NoOverReturn ==
    [][(ev'.op = "withdraw" /\ ev'.resp = "200")
        => warehouses'[ev'.w].collateralAvailable <= warehouses'[ev'.w].collateral]_vars

(***************************************************************************)
(* Properties of validateAssets (SpecValuation).  The expected result is   *)
(* read from the price cache, the price table and the clock as they are    *)
(* before the call.                                                        *)
(***************************************************************************)
Valued(e) == e.op = "validateAssets"

BadQuantity(req) == \E i \in 1..Len(req) : req[i].qty < 1

EntryStale(k) == assets[k].updatedAt < now - ThirtyMinutes

\* the price cache resolves k: from its entry, refreshed from the table when
\* stale, or, for a symbol it does not hold, from a load of the whole table,
\* made only when the last load is more than an hour old
Resolves(k) ==
    IF k \in DOMAIN assets
    THEN IF EntryStale(k) THEN k \in DOMAIN redisAssets ELSE TRUE
    ELSE assetsCheckedAt < now - 2 * ThirtyMinutes /\ k \in DOMAIN redisAssets

UnitValue(k) ==
    IF k \in DOMAIN assets /\ ~EntryStale(k) THEN assets[k].value
    ELSE redisAssets[k]

Unresolved(req) ==
    \E i \in 1..Len(req) : req[i].key # "stelo" /\ ~Resolves(req[i].key)

RECURSIVE SumValues(_, _)
SumValues(req, i) ==
    IF i > Len(req) THEN 0
    ELSE (IF req[i].key = "stelo" THEN 0 ELSE UnitValue(req[i].key) * req[i].qty)
         + SumValues(req, i + 1)

\* C20: the result is -1 when a quantity is below 1, when a symbol other than
\* stelo cannot be resolved by the price cache, or when stelo is among the
\* symbols and is not allowed; otherwise it is the sum, over the priced
\* symbols, of the unit value the cache holds after any refresh times the
\* quantity.
C20_Result ==
    [][Valued(ev') =>
        ev'.result =
          (IF \/ BadQuantity(ev'.req)
              \/ Unresolved(ev'.req)
              \/ (~ev'.steloAllowed /\ \E i \in 1..Len(ev'.req) : ev'.req[i].key = "stelo")
           THEN -1
           ELSE SumValues(ev'.req, 1))]_vars

HasReserve(req) == \E i \in 1..Len(req) : req[i].key = "stelo"

\* C21: whatever the price cache holds, a quantity map naming stelo is rejected
\* when stelo is not allowed, and accepted when it is allowed and the map is
\* valid otherwise.
C21_ReserveGating ==
    [][(Valued(ev') /\ HasReserve(ev'.req)) =>
        IF ~ev'.steloAllowed THEN ev'.result = -1
        ELSE (~BadQuantity(ev'.req) /\ ~Unresolved(ev'.req)) => ev'.result >= 0]_vars

KeysIn(req) == {req[i].key : i \in 1..Len(req)}

\* the request is not rejected by the loop over its keys, before the refresh
ReachesRefresh(e) ==
    /\ ~BadQuantity(e.req)
    /\ \A k \in KeysIn(e.req) :
          IF k \in DOMAIN assets THEN TRUE
          ELSE IF k = "stelo" THEN e.steloAllowed
          ELSE Resolves(k)

StaleKeys(req) == {k \in KeysIn(req) \cap DOMAIN assets : EntryStale(k)}

\* C22: a valuation that reaches its refresh step with at least one cache entry
\* more than 30 minutes old makes exactly one targeted call to the price source,
\* for all its stale symbols, and leaves each of them in the cache with the
\* value of the table and the current time; a valuation whose symbols are all
\* in the cache and less than 30 minutes old makes no call to the price source.
C22_StaleRefresh ==
    [][(Valued(ev') /\ ReachesRefresh(ev')) =>
        LET stale == StaleKeys(ev'.req) IN
        /\ ev'.hmget = (IF stale = {} THEN 0 ELSE 1)
        /\ (stale # {} /\ stale \subseteq DOMAIN redisAssets) =>
              \A k \in stale :
                 assets'[k] = [value |-> redisAssets[k], updatedAt |-> now]
        /\ (stale = {} /\ KeysIn(ev'.req) \subseteq DOMAIN assets) =>
              (ev'.hgetall = 0 /\ assets' = assets)]_vars

\* a valuation has made its one targeted call and stamped every symbol it names
C22_Witness ==
    /\ Valued(ev)
    /\ ev.hmget = 1
    /\ ev.hgetall = 0
    /\ ev.result >= 0
    /\ now > 0
    /\ \A k \in KeysIn(ev.req) : k \in DOMAIN assets /\ assets[k].updatedAt = now

AbsentKeys(req) == (KeysIn(req) \ {"stelo"}) \ DOMAIN assets

TableOld == assetsCheckedAt < now - 2 * ThirtyMinutes

\* C23: a valuation loads the whole table only for a symbol absent from the
\* cache and only when the last whole-table load is more than 60 minutes old,
\* so at most once; a valuation of an absent symbol other than stelo within 60
\* minutes of the last load returns -1 without a call to the price source.
C23_WholeTableFallback ==
    [][Valued(ev') =>
        /\ ev'.hgetall <= (IF AbsentKeys(ev'.req) # {} /\ TableOld THEN 1 ELSE 0)
        /\ (AbsentKeys(ev'.req) # {} /\ ~TableOld) =>
              (ev'.result = -1 /\ ev'.hgetall = 0 /\ ev'.hmget = 0)]_vars

(***************************************************************************)
(* Properties of the handlers that call validateAssets (SpecEvict).        *)
(***************************************************************************)
\* a deposit or a withdrawal has passed its assignment check and names only
\* quantities of at least 1 of symbols the cache holds
ValuedByHandler(e) ==
    /\ e.op \in {"deposit.receive", "withdraw.receive"}
    /\ e.resp # "A0011"
    /\ ~BadQuantity(e.assets)
    /\ KeysIn(e.assets) \subseteq DOMAIN assets

GoneFromTable(req) == {k \in StaleKeys(req) : k \notin DOMAIN redisAssets}

\* C24: when a request names a symbol whose cache entry is stale and the price
\* table no longer has the symbol, the entry of such a symbol is removed from
\* the cache and the request is answered as invalid: no transaction is started
\* for it and no wallet or warehouse changes.
C24_Eviction ==
    [][(ValuedByHandler(ev') /\ GoneFromTable(ev'.assets) # {}) =>
        /\ \E k \in GoneFromTable(ev'.assets) : k \notin DOMAIN assets'
        /\ ev'.resp = "G0000"
        /\ reqs' = reqs
        /\ wallets' = wallets
        /\ warehouses' = warehouses]_vars

\* a request has been refused because the table had lost its symbol, and the
\* cache no longer holds the symbol
C24_Witness ==
    /\ ev.op \in {"deposit.receive", "withdraw.receive"}
    /\ ev.resp = "G0000"
    /\ ~BadQuantity(ev.assets)
    /\ \E k \in KeysIn(ev.assets) : k \notin DOMAIN assets /\ k \notin DOMAIN redisAssets
    /\ assetsCheckedAt > now - 2 * ThirtyMinutes

(***************************************************************************)
(* Properties of the debits (SpecLedger, SpecTransfers).                   *)
(***************************************************************************)
\* a send reached the debit of its sender: its recipient was found, is another
\* wallet, and its webhook, if it has one, resolved
ReachesDebit(e) ==
    /\ ValidSend(e)
    /\ ~RecipientMissing(e)
    /\ ~WebhookFails(e)
    /\ ~ToItself(e)

Covered(body) ==
    /\ warehouses[body.receivingWarehouse].collateralAvailable >= body.collateralNeeded
    /\ \A k \in KeysOf(body.assets) :
          warehouses[body.sendingWarehouse].assets[k] >= QtyOf(body.assets, k)

Newest(history) ==
    SubSeq(history, 1,
           IF Len(history) < ListStop + 1 THEN Len(history) ELSE ListStop + 1)

\* C27: a Recent-Activity list holds at most 10 entries, they are the entries
\* appended last with the newest first, and every append sets the time to
\* live of the list to 5 days.
C27_RecentActivityBound ==
    /\ [](/\ Len(recent.list) <= ListStop + 1
          /\ recent.list = Newest(recent.appended))
    /\ [][Len(recent'.appended) > Len(recent.appended) => recent'.ttl = FiveDays]_vars

\* more entries were appended than the list keeps, some of them days ago
C27_Witness ==
    /\ Len(recent.appended) > ListStop + 2
    /\ Len(recent.list) = ListStop + 1
    /\ recent.ttl < FiveDays
    /\ recent.list[1] # recent.list[2]

(***************************************************************************)
(* Properties of the deletion of an account (SpecAccounts).                *)
(***************************************************************************)
\* the deletion reached its transaction: the caller owns no wallet, has a
\* wallet and gave the password
DeletionRan(e) ==
    /\ e.op = "user.delete"
    /\ e.validPassword
    /\ wallets[e.user].exists
    /\ \A w \in WalletIds : ~(wallets[w].exists /\ wallets[w].ownerId = e.user)

\* C28: a deletion that finds no treasury wallet answers treasury-not-found and
\* leaves every wallet, the caller's included, as it was; a deletion that finds
\* the treasury removes the caller's wallet and adds every quantity it held to
\* the treasury in the same step, and changes no other wallet.
C28_DeletionAtomic ==
    [][DeletionRan(ev') =>
        LET u == ev'.user IN
        IF ~wallets["stelotreasury"].exists
        THEN /\ ev'.resp = "S0000"
             /\ wallets' = wallets
        ELSE /\ ev'.resp = "200"
             /\ ~wallets'[u].exists
             /\ \A k \in Symbols :
                   wallets'["stelotreasury"].assets[k] =
                     wallets["stelotreasury"].assets[k] + wallets[u].assets[k]
             /\ \A w \in WalletIds \ {u, "stelotreasury"} :
                   wallets'[w] = wallets[w]]_vars

\* a user holding assets asked for the deletion and the treasury was missing
C28_Witness ==
    /\ ev.op = "user.delete"
    /\ ev.resp = "S0000"
    /\ wallets[ev.user].exists
    /\ \E k \in Symbols : wallets[ev.user].assets[k] > 0

(***************************************************************************)
(* Conservation of the inventories in transit (SpecTransfers, SpecFaulty). *)
(***************************************************************************)
\* the quantity of k a transfer document holds
HeldByTransfer(doc, k) == IF doc.status = "none" THEN 0 ELSE QtyOf(doc.assets, k)

RECURSIVE SumOfTransfers(_, _, _)
SumOfTransfers(trs, k, n) ==
    IF n = 0 THEN 0 ELSE HeldByTransfer(trs[n], k) + SumOfTransfers(trs, k, n - 1)

\* inventories of k in all warehouses plus the quantities of k in transfer documents
InTransitTotal(whs, trs, k) ==
    whs["A"].assets[k] + whs["B"].assets[k] + SumOfTransfers(trs, k, MaxTransfers)

TransferStep(e) == e.op \in {"create", "cancel", "sent", "received"}

\* C31 as stated: for every asset the sum of the warehouses' inventories and of
\* the quantities held in existing transfer documents is unchanged by every
\* create, advance, cancel and confirmation, and no transfer is credited to a
\* warehouse more than once.
C31_InTransitConservation ==
    /\ [][TransferStep(ev') =>
            \A k \in Symbols :
               InTransitTotal(warehouses', transfers', k) =
                 InTransitTotal(warehouses, transfers, k)]_vars
    /\ [](\A t \in TransferIds : hist[t].cancelled + hist[t].confirmed <= 1)

(***************************************************************************)
(* Collateral locked by transfers in flight (SpecLocked).                  *)
(***************************************************************************)
\* collateralUsed of a transfer document received by w
LockedByTransfer(doc, w) ==
    IF doc.status = "none" THEN 0
    ELSE IF doc.receivingWarehouse = w THEN doc.collateralUsed
    ELSE 0

RECURSIVE SumOfLocks(_, _, _)
SumOfLocks(trs, w, n) ==
    IF n = 0 THEN 0 ELSE LockedByTransfer(trs[n], w) + SumOfLocks(trs, w, n - 1)

\* C32 as stated: in every state and for every warehouse, collateral minus
\* collateralAvailable is at least the sum of collateralUsed over the existing
\* transfers the warehouse is to receive.
C32_InFlightCollateralLocked ==
    \A w \in WarehouseIds :
       warehouses[w].collateral - warehouses[w].collateralAvailable
         >= SumOfLocks(transfers, w, MaxTransfers)

(***************************************************************************)
(* Conservation of stelo under collateral adjustments (SpecWarehouses).    *)
(***************************************************************************)
\* the caller's stelo and the warehouse's total collateral together
Reserve(ws, whs, c, w) == ws[c].assets["stelo"] + whs[w].collateral

LockedAmount(whs, w) == whs[w].collateral - whs[w].collateralAvailable

\* C33: a collateral adjustment that succeeds, pledge or reclaim, leaves the sum
\* of the caller's stelo and the warehouse's collateral as it was and leaves
\* collateral minus collateralAvailable as it was; one that fails leaves the
\* caller's stelo, the collateral and the collateralAvailable as they were.
C33_ReserveConserved ==
    [][ev'.op = "collateral" =>
        LET c == ev'.caller
            w == ev'.w
        IN
        IF ev'.resp = "200"
        THEN /\ Reserve(wallets', warehouses', c, w) = Reserve(wallets, warehouses, c, w)
             /\ LockedAmount(warehouses', w) = LockedAmount(warehouses, w)
             /\ warehouses'[w].collateral = warehouses[w].collateral + ev'.balance
        ELSE /\ wallets'[c].assets["stelo"] = wallets[c].assets["stelo"]
             /\ warehouses'[w].collateral = warehouses[w].collateral
             /\ warehouses'[w].collateralAvailable =
                  warehouses[w].collateralAvailable]_vars

\* a reclaim has returned stelo to a caller while part of the warehouse's
\* collateral is locked
C33_Witness ==
    /\ ev.op = "collateral"
    /\ ev.resp = "200"
    /\ ev.balance < 0
    /\ LockedAmount(warehouses, ev.w) > 0

(***************************************************************************)
(* Deposits and withdrawals (SpecWarehouses).                              *)
(***************************************************************************)
AssetsDone(e) == e.op \in {"deposit", "withdraw"}

\* both the warehouse and the customer's wallet hold the named quantities
BothHold(w, d, req) ==
    \A k \in KeysOf(req) :
       /\ warehouses[w].assets[k] >= QtyOf(req, k)
       /\ wallets[d].assets[k] >= QtyOf(req, k)

\* C34: a deposit that succeeds takes the valuation of the deposited assets
\* from the warehouse's collateralAvailable, which held at least that much at
\* the write, and adds the quantities to the warehouse's inventory and to the
\* depositor's wallet; a withdrawal that succeeds takes the quantities from the
\* warehouse's inventory and from the withdrawer's wallet, which both held
\* them; a deposit or withdrawal naming a user without a wallet, or failing a
\* sufficiency condition, changes neither the warehouses nor the wallets.
C34_AssetsAllOrNothing ==
    [][AssetsDone(ev') =>
        LET w == ev'.w
            d == ev'.customer
            req == ev'.assets
        IN
        IF ev'.resp # "200"
        THEN /\ warehouses' = warehouses
             /\ wallets' = wallets
        ELSE
          /\ wallets[d].exists
          /\ \A o \in WarehouseIds \ {w} : warehouses'[o] = warehouses[o]
          /\ \A o \in WalletIds \ {d} : wallets'[o] = wallets[o]
          /\ IF ev'.op = "deposit"
             THEN /\ warehouses[w].collateralAvailable >= ev'.amount
                  /\ warehouses'[w].collateralAvailable =
                       warehouses[w].collateralAvailable - ev'.amount
                  /\ Credited(warehouses[w].assets, warehouses'[w].assets, req)
                  /\ Credited(wallets[d].assets, wallets'[d].assets, req)
             ELSE /\ BothHold(w, d, req)
                  /\ Debited(warehouses[w].assets, warehouses'[w].assets, req)
                  /\ Debited(wallets[d].assets, wallets'[d].assets, req)]_vars

\* a deposit for a user who has no wallet has been refused after the
\* warehouse's update had been staged
C34_Witness ==
    /\ ev.op = "deposit"
    /\ ev.resp = "W0003"
    /\ ~wallets[ev.customer].exists
    /\ warehouses[ev.w].collateralAvailable >= ev.amount

\* C35 as stated: a deposit or a withdrawal changes, on the customer's wallet,
\* only the balances of the assets the request names; every other field of the
\* wallet, collateralAvailable included, and every other wallet stay as they were.
C35_WalletFrame ==
    [][AssetsDone(ev') =>
        \A d \in WalletIds :
           /\ \A k \in Symbols \ KeysOf(ev'.assets) :
                 wallets'[d].assets[k] = wallets[d].assets[k]
           /\ [wallets'[d] EXCEPT !.assets = NoAssets] =
                [wallets[d] EXCEPT !.assets = NoAssets]]_vars

(***************************************************************************)
(* The two records of an assignment (SpecAssignments).                     *)
(***************************************************************************)
\* C36 as stated: in every state an account is the owner or a worker of a
\* warehouse by the warehouse's record exactly when the warehouse is in the
\* account's own list.
C36_AssignmentsConsistent ==
    \A a \in Callers : \A w \in WarehouseIds : Names(w, a) <=> Lists(a, w)

(***************************************************************************)
(* The distribution to new users (SpecLedger).                             *)
(***************************************************************************)
Granted(e) == e.op = "users.approve" /\ e.distribution /\ e.resp = "201"

\* C37 as stated: an approval with distribution that succeeds credits the new
\* user freeStelo and takes the same freeStelo from the distribution wallet,
\* which held at least freeStelo before and so holds no negative balance after.
C37_DistributionNeverOverdraws ==
    [][Granted(ev') =>
        LET g == "genesisdistribution"
            n == ev'.flags.freeStelo
        IN
        /\ wallets'[ev'.username].assets["stelo"] = n
        /\ wallets'[g].assets["stelo"] = wallets[g].assets["stelo"] - n
        /\ wallets[g].assets["stelo"] >= n
        /\ wallets'[g].assets["stelo"] >= 0]_vars

(***************************************************************************)
(* Deletions and the supply of every asset (SpecDeletions).                *)
(***************************************************************************)
RECURSIVE SupplyIn(_, _, _)
SupplyIn(ws, ids, k) ==
    IF ids = {} THEN 0
    ELSE LET w == CHOOSE x \in ids : TRUE
         IN ws[w].assets[k] + SupplyIn(ws, ids \ {w}, k)

\* the quantity of k held by all wallets
Supply(ws, k) == SupplyIn(ws, WalletIds, k)

DeletionAnswered(e) == e.op \in {"wallets.delete", "user.delete"}

\* the wallet a deletion removes and the wallet it moves the assets to
Removed(e) == IF e.op = "wallets.delete" THEN e.address ELSE e.user

Heir(e) == IF e.op = "wallets.delete" THEN e.user ELSE "stelotreasury"

CanBeEnded(t) ==
    \E c \in Callers :
       \/ CancelTxn(warehouses, transfers, warehouseAccounts, c, t).flags = StatusFlags
       \/ ConfirmTxn(warehouses, transfers, warehouseAccounts, c, t).flags = StatusFlags

\* C39 as stated: every transfer that exists is eventually deleted, and in every
\* state every existing transfer can be cancelled or confirmed with effect by
\* some caller.
C39_NoTransferStuck ==
    /\ \A t \in TransferIds :
          (transfers[t].status # "none") ~> (transfers[t].status = "none")
    /\ [](\A t \in TransferIds : transfers[t].status # "none" => CanBeEnded(t))

(***************************************************************************)
(* The owners of the custodial wallets (SpecOrphans).                      *)
(***************************************************************************)
Owns(ws, user) == \E w \in WalletIds : ws[w].exists /\ ws[w].ownerId = user

\* C40 as stated: in every state the ownerId of every wallet that has one names
\* an account that exists, and a deletion of an account takes effect only when
\* the account owns no wallet at that moment.
C40_NoOrphanedOwnership ==
    /\ [](\A w \in WalletIds :
             (wallets[w].exists /\ wallets[w].ownerId # "none")
               => wallets[wallets[w].ownerId].exists)
    /\ [][(ev'.op = "user.delete" /\ ev'.resp = "200")
            => ~Owns(wallets, ev'.user)]_vars

====
